---- MODULE Spec2Model ----
(***************************************************************************)
(* A model of local-logger: the unified log sink (log_writer.rs), the      *)
(* reverse tail reader (tail_reader.rs) and the intercepting proxy         *)
(* (proxy_server.rs) with its tracing layer (jsonl_tracing_layer.rs).      *)
(*                                                                         *)
(* A daily file is a sequence of bytes.  A byte is a record: the brace     *)
(* that opens a serialized event, one of its content bytes (which carries  *)
(* the event and its position in it), the closing brace, or the newline.   *)
(***************************************************************************)
EXTENDS Integers, Sequences, FiniteSets, TLC

(***************************************************************************)
(* Bounds of the model.                                                    *)
(***************************************************************************)
\* writer threads / processes that call write_sync directly
NumWriters == 2
\* write_sync calls made by the writers in all
MaxCalls == 4
\* content bytes of the largest event a writer logs
MaxSize == 3
\* days the clock runs through (one daily file per day)
MaxDay == 2
\* capacity of the BufWriter, scaled down from 8192 bytes (log_writer.rs:76)
BufCap == 4
\* the tail reader's chunk, scaled down from 64 KiB (tail_reader.rs:18)
CHUNK_SIZE == 8
\* events in a file handed to the tail reader
MaxEvents == 3
\* the largest n asked of read_last_n_lines
MaxN == 3

\* requests that go through forward_request
NumReqs == 2
\* recording.max_body_size, scaled down from its default of 10 MiB
MaxBodySize == 2
\* the preview of a truncated body, scaled down from 1024 bytes (schema.rs:408)
PreviewMax == 1

\* client connections that send CONNECT
NumConns == 1
\* bytes each side of a passthrough tunnel sends
MaxTunnelBytes == 1
\* connections the listener accepts in all (Conns are those open at once)
MaxAccepts == 2
\* concurrent callers of get_certificate, and leaf certificates minted in all
NumCallers == 2
MaxLeafs == 3
\* times the proxy process is started on the same certificate directory
MaxStarts == 4
\* headers in a map handed to redact_sensitive_headers
MaxHeaders == 2
\* keys in the extra map of a Hook event
MaxExtra == 2
\* members of the JSON object a hook process reads
MaxPayloadKeys == 2
\* characters of a date argument that differ from a well-formed date
MaxEdits == 2
\* segments of a request path
MaxSegments == 2

Writers == 1..NumWriters
Dates == 1..MaxDay
Reqs == 1..NumReqs
Conns == 1..NumConns

\* one write_sync invocation at a time per job; a job belongs to a writer
WriterJobs == {<<"w", w>> : w \in Writers}
\* the blocking jobs write_async spawns for a request's two events, and the
\* write_sync call the tracing layer makes on the request's own thread
ProxyJobs == {<<k, r>> : k \in {"req", "resp", "trace"}, r \in Reqs}
\* the write_sync calls the tracing layer makes for the events of a
\* connection, one after the other on the connection's own thread
ConnJobs == {<<"ctrace", c>> : c \in Conns}
\* the write_sync call of the hook process
HookJob == <<"hook", 1>>
Jobs == WriterJobs \cup ProxyJobs \cup ConnJobs \cup {HookJob}

NoJob == <<"none", 0>>
NoEntry == [type |-> "none"]

VARIABLES
    files,        \* files[d]: the bytes of <logs_dir>/<d>.jsonl
    lockHolder,   \* lockHolder[d]: the job holding the exclusive lock of file d
    jpc,          \* jpc[j]: where job j stands inside write_sync
    jentry,       \* jentry[j]: the entry job j is writing
    jpend,        \* jpend[j]: bytes handed to the BufWriter and not yet in the file
    okWrites,     \* the entries whose write_sync returned Ok
    today,        \* the current UTC date
    wcount,       \* wcount[w]: write_sync calls writer w has made
    rpc,          \* where the tail reader stands in read_last_n_lines
    rn,           \* its argument n
    rdate,        \* the daily file it reads
    roffset,      \* its offset
    rbuffer,      \* its rolling buffer
    rentries,     \* its entries vector
    rresult,      \* the vector it returned
    include_bodies, \* config.recording.include_bodies
    nextUuid,     \* the next value Uuid::new_v4() returns
    fpc,          \* fpc[r]: where request r stands in forward_request
    fids,         \* fids[r]: request_id, session_id, correlation_id of request r
    fup,          \* fup[r]: the response received from upstream
    fclient,      \* fclient[r]: what the client got back
    target_hosts, \* config.filtering.target_hosts
    cpc,          \* cpc[c]: where connection c stands
    cauth,        \* cauth[c]: the authority of its CONNECT, <<>> when absent
    cmode,        \* cmode[c]: the task handle_connect spawned for it
    cresp,        \* cresp[c]: what the client got in answer to CONNECT
    tun,          \* tun[c]: the bytes sent and received through its tunnel
    lpc,          \* where ProxyServer::run stands: in its accept loop, or returned
    accepted,     \* the connections accepted so far
    cache,        \* CertificateManager.cache: hostname -> leaf, NoLeaf where absent
    minted,       \* the leaf certificates generate_host_certificate has made
    gpc,          \* gpc[k]: where caller k stands inside get_certificate
    ghost,        \* ghost[k]: the hostname caller k asked for
    gleaf,        \* gleaf[k]: the leaf caller k generated and has not yet cached
    gres,         \* gres[k]: what the last call of caller k returned
    served,       \* the hostnames of the calls that returned Ok
    capem,        \* the bytes of <cert_dir>/ca.pem, Absent when there is no file
    cakey,        \* the bytes of <cert_dir>/ca.key, Absent when there is no file
    npc,          \* where the process stands inside CertificateManager::new
    root_ca,      \* the root certificate the manager holds in memory
    root_ca_keypair, \* the root key pair the manager holds in memory
    starts,       \* the process starts so far
    peer,         \* the second process on the certificate directory: its position and locals
    headers,      \* a header map handed to redact_sensitive_headers
    redacted,     \* the map it returned
    body_in,      \* the arguments of a call of BodyData::from_bytes
    body_out,     \* the BodyData it returned
    event,        \* a LogEntry built by one of the constructors
    json,         \* the JSON object serde_json makes of it
    decoded,      \* the LogEntry serde_json reads back from that object
    stdin,        \* what the hook process finds on its standard input
    hpc,          \* where the hook process stands in run_hook_mode_sync
    hexit,        \* its exit code, NoExit while it runs
    call,         \* a call of a pure function: its name and arguments
    result        \* what that call returned

sinkVars == <<files, lockHolder, jpc, jentry, jpend, okWrites>>
readerVars == <<rpc, rn, rdate, roffset, rbuffer, rentries, rresult>>
proxyVars == <<include_bodies, nextUuid, fpc, fids, fup, fclient>>
\* what the steps of write_sync leave alone
connVars == <<target_hosts, cpc, cauth, cmode, cresp, tun>>
listenerVars == <<lpc, accepted>>
certVars == <<cache, minted, gpc, ghost, gleaf, gres, served>>
caVars == <<capem, cakey, npc, root_ca, root_ca_keypair, starts, peer>>
schemaVars == <<headers, redacted, body_in, body_out, event, json, decoded>>
hookVars == <<stdin, hpc, hexit>>
callVars == <<call, result>>
extraVars == <<certVars, caVars, schemaVars, hookVars, callVars>>
otherVars == <<listenerVars, extraVars>>
aroundSink == <<today, wcount, readerVars, proxyVars, connVars, otherVars>>
vars == <<sinkVars, today, wcount, readerVars, proxyVars, connVars, otherVars>>

(***************************************************************************)
(* Serialization and parsing of one event line.                            *)
(***************************************************************************)
OpenB == [c |-> "{", ev |-> NoEntry, i |-> 0]
CloseB == [c |-> "}", ev |-> NoEntry, i |-> 0]
NL == [c |-> "\n", ev |-> NoEntry, i |-> 0]
ParseFail == [type |-> "parse_error"]

\* serde_json::to_writer(entry): one line, no newline inside
Serialize(e) ==
    <<OpenB>> \o [i \in 1..e.size |-> [c |-> "d", ev |-> e, i |-> i]] \o <<CloseB>>

\* serde_json::from_str::<LogEntry>(line)
Parse(line) ==
    IF /\ Len(line) >= 3
       /\ line[1] = OpenB
       /\ line[2].c = "d"
       /\ line = Serialize(line[2].ev)
    THEN line[2].ev
    ELSE ParseFail

HasNL(f) == \E i \in 1..Len(f) : f[i] = NL
FirstNL(f) == CHOOSE i \in 1..Len(f) : f[i] = NL /\ \A j \in 1..(i - 1) : f[j] # NL

\* the newline-terminated lines of a file, in file order
RECURSIVE LinesOf(_)
LinesOf(f) ==
    IF ~HasNL(f) THEN <<>>
    ELSE <<SubSeq(f, 1, FirstNL(f) - 1)>> \o LinesOf(SubSeq(f, FirstNL(f) + 1, Len(f)))

\* the bytes after the last newline of a file
RECURSIVE TailOf(_)
TailOf(f) == IF ~HasNL(f) THEN f ELSE TailOf(SubSeq(f, FirstNL(f) + 1, Len(f)))

IsPrefix(p, s) == Len(p) <= Len(s) /\ SubSeq(s, 1, Len(p)) = p

(***************************************************************************)
(* LogEntry constructors (schema.rs): the date is taken from the clock     *)
(* when the entry is built.                                                *)
(***************************************************************************)
Mcp(w, n, size, date) ==
    [type |-> "Mcp", id |-> <<w, n>>, size |-> size, date |-> date]
new_mcp(w, n, size) == Mcp(w, n, size, today)

(***************************************************************************)
(* LogWriter::write_sync, step by step.                                    *)
(***************************************************************************)
\* OpenOptions::append(true): every write lands at the end of the file
AppendNoAppendFlag(f, bytes) ==
    bytes \o SubSeq(f, Len(bytes) + 1, Len(f))
AppendBytes(f, bytes) == f \o bytes

\* fs2 lock_exclusive blocks while another open file holds the lock
CanLockNoExclusion(j) == TRUE
CanLock(j) == lockHolder[jentry[j].date] = NoJob

StartWrite(j, e) ==
    /\ jpc' = [jpc EXCEPT ![j] = "called"]
    /\ jentry' = [jentry EXCEPT ![j] = e]
    /\ jpend' = [jpend EXCEPT ![j] = <<>>]

\* OpenOptions::new().create(true).append(true).open(path)?
Open(j) ==
    /\ jpc[j] = "called"
    /\ jpc' = [jpc EXCEPT ![j] = "opened"]
    /\ UNCHANGED <<files, lockHolder, jentry, jpend, okWrites, aroundSink>>

\* the open fails: write_sync returns Err before it wrote anything
OpenFail(j) ==
    /\ jpc[j] = "called"
    /\ jpc' = [jpc EXCEPT ![j] = "err"]
    /\ UNCHANGED <<files, lockHolder, jentry, jpend, okWrites, aroundSink>>

\* file.lock_exclusive()?; then the entry and the newline go to the BufWriter
LockExclusive(j) ==
    /\ jpc[j] = "opened"
    /\ CanLock(j)
    /\ lockHolder' = [lockHolder EXCEPT ![jentry[j].date] = j]
    /\ jpend' = [jpend EXCEPT ![j] = Serialize(jentry[j]) \o <<NL>>]
    /\ jpc' = [jpc EXCEPT ![j] = "locked"]
    /\ UNCHANGED <<files, jentry, okWrites, aroundSink>>

\* the BufWriter is full: it writes its buffer through to the file
BufWrite(j) ==
    /\ jpc[j] = "locked"
    /\ Len(jpend[j]) > BufCap
    /\ files' = [files EXCEPT ![jentry[j].date] =
                    AppendBytes(@, SubSeq(jpend[j], 1, BufCap))]
    /\ jpend' = [jpend EXCEPT ![j] = SubSeq(@, BufCap + 1, Len(@))]
    /\ UNCHANGED <<lockHolder, jpc, jentry, okWrites, aroundSink>>

\* writer.flush()?: the rest of the buffer, the newline included
Flush(j) ==
    /\ jpc[j] = "locked"
    /\ Len(jpend[j]) <= BufCap
    /\ files' = [files EXCEPT ![jentry[j].date] = AppendBytes(@, jpend[j])]
    /\ jpend' = [jpend EXCEPT ![j] = <<>>]
    /\ jpc' = [jpc EXCEPT ![j] = "flushed"]
    /\ UNCHANGED <<lockHolder, jentry, okWrites, aroundSink>>

\* the file is dropped, which releases the lock; write_sync returns Ok(())
Close(j) ==
    /\ jpc[j] = "flushed"
    /\ lockHolder' = [lockHolder EXCEPT ![jentry[j].date] = NoJob]
    /\ jpc' = [jpc EXCEPT ![j] = "ok"]
    /\ okWrites' = okWrites \cup {jentry[j]}
    /\ UNCHANGED <<files, jentry, jpend, aroundSink>>

\* what the holder of the lock is after the File of a returning write_sync
\* has been dropped: closing the descriptor releases the flock
LockKeptAfterDrop(j) == j
LockAfterDrop(j) == NoJob

\* file.lock_exclusive()? returns Err: the file is dropped without a lock
LockFail(j) ==
    /\ jpc[j] = "opened"
    /\ jpc' = [jpc EXCEPT ![j] = "err"]
    /\ UNCHANGED <<files, lockHolder, jentry, jpend, okWrites, aroundSink>>

\* the prefixes of a sequence
Prefixes(s) == {SubSeq(s, 1, k) : k \in 0..Len(s)}

\* to_writer, write_all or flush returns Err while the lock is held: `?`
\* returns it; the BufWriter is dropped, which writes of its buffer what the
\* file still takes, and then the File, which releases the lock
IoFail(j) ==
    /\ jpc[j] = "locked"
    /\ \E written \in Prefixes(IF Len(jpend[j]) <= BufCap THEN jpend[j]
                                ELSE SubSeq(jpend[j], 1, BufCap)) :
          files' = [files EXCEPT ![jentry[j].date] = AppendBytes(@, written)]
    /\ jpend' = [jpend EXCEPT ![j] = <<>>]
    /\ lockHolder' = [lockHolder EXCEPT ![jentry[j].date] =
                         IF @ = j THEN LockAfterDrop(j) ELSE @]
    /\ jpc' = [jpc EXCEPT ![j] = "err"]
    /\ UNCHANGED <<jentry, okWrites, aroundSink>>

\* write_sync from the call to the return as one step, as the other tasks of
\* the proxy see it: the record is appended whole while the lock is held
WriteSync(j) ==
    /\ jpc[j] = "called"
    /\ CanLock(j)
    /\ files' = [files EXCEPT ![jentry[j].date] =
                    AppendBytes(@, Serialize(jentry[j]) \o <<NL>>)]
    /\ jpc' = [jpc EXCEPT ![j] = "ok"]
    /\ okWrites' = okWrites \cup {jentry[j]}
    /\ UNCHANGED <<lockHolder, jentry, jpend, aroundSink>>

(***************************************************************************)
(* The callers of the sink used by the concurrency tests: threads or       *)
(* processes that build an entry and call write_sync.                      *)
(***************************************************************************)
RECURSIVE SumCalls(_)
SumCalls(ws) ==
    IF ws = {} THEN 0
    ELSE LET w == CHOOSE x \in ws : TRUE IN wcount[w] + SumCalls(ws \ {w})
CallsMade == SumCalls(Writers)

WriterCall(w, size) ==
    /\ jpc[<<"w", w>>] \in {"idle", "ok", "err"}
    /\ CallsMade < MaxCalls
    /\ wcount' = [wcount EXCEPT ![w] = @ + 1]
    /\ StartWrite(<<"w", w>>, new_mcp(w, wcount[w] + 1, size))
    /\ UNCHANGED <<files, lockHolder, okWrites, today, readerVars, proxyVars, connVars, otherVars>>

\* UTC midnight passes
Tick ==
    /\ today < MaxDay
    /\ today' = today + 1
    /\ UNCHANGED <<sinkVars, wcount, readerVars, proxyVars, connVars, otherVars>>


(***************************************************************************)
(* tail_reader::read_last_n_lines, one loop iteration per step.            *)
(***************************************************************************)
Min(a, b) == IF a <= b THEN a ELSE b

\* the entries of the lines, parsed or not, in the order of the lines
ParsedAll(lines) == [i \in 1..Len(lines) |-> Parse(lines[i])]
\* the entries of the lines that parse, in the order of the lines
ParsedOk(lines) ==
    SelectSeq([i \in 1..Len(lines) |-> Parse(lines[i])], LAMBDA e : e # ParseFail)

\* the last n elements of a sequence
LastN(s, n) == SubSeq(s, Len(s) - Min(n, Len(s)) + 1, Len(s))

\* File::open, metadata().len(); the locals of the function
ReadStart(d, n) ==
    /\ rpc \in {"idle", "done"}
    /\ rpc' = "loop"
    /\ rn' = n
    /\ rdate' = d
    /\ roffset' = Len(files[d])
    /\ rbuffer' = <<>>
    /\ rentries' = <<>>
    /\ rresult' = <<>>
    /\ UNCHANGED <<sinkVars, today, wcount, proxyVars, connVars, otherVars>>

\* the buffer after the chunk is put in front of what was kept
ChunkWithBufferAppended(chunk, buffer) == buffer \o chunk
ChunkWithBuffer(chunk, buffer) == chunk \o buffer

\* "Keep incomplete line for next iteration": the bytes after the last newline
KeptBuffer(buffer) == TailOf(buffer)

\* one pass of the while loop: read the chunk that ends at offset, scan the
\* buffer forward for complete lines, keep the bytes after the last newline
ReadChunk ==
    /\ rpc = "loop"
    /\ roffset > 0
    /\ LET read_size == Min(CHUNK_SIZE, roffset)
           offset == roffset - read_size
           chunk == SubSeq(files[rdate], offset + 1, offset + read_size)
           buffer == ChunkWithBuffer(chunk, rbuffer)
           entries == rentries \o ParsedOk(LinesOf(buffer))
       IN /\ roffset' = offset
          /\ rentries' = entries
          /\ rbuffer' = KeptBuffer(buffer)
          /\ rpc' = IF Len(entries) >= rn THEN "drain" ELSE "loop"
    /\ UNCHANGED <<rn, rdate, rresult, sinkVars, today, wcount, proxyVars, connVars, otherVars>>

\* after the loop: keep only the last n entries and return them
ReadReturn ==
    /\ \/ rpc = "drain"
       \/ rpc = "loop" /\ roffset = 0
    /\ rresult' = LastN(rentries, rn)
    /\ rpc' = "done"
    /\ UNCHANGED <<rn, rdate, roffset, rbuffer, rentries, sinkVars, today, wcount, proxyVars, connVars, otherVars>>

(***************************************************************************)
(* BodyData::from_bytes (schema.rs).  A body is a sequence of bytes over   *)
(* "a" (an ASCII byte), "x" (a byte that is not valid UTF-8) and "gz" (the *)
(* gzip header: a body that starts with it inflates to the bytes after it, *)
(* any other body is not a gzip stream).                                   *)
(***************************************************************************)
decompress_gzip(bytes) ==
    IF Len(bytes) >= 1 /\ bytes[1] = "gz"
    THEN [ok |-> TRUE, data |-> Tail(bytes)]
    ELSE [ok |-> FALSE, data |-> <<>>]

ValidUtf8(bytes) == \A i \in 1..Len(bytes) : bytes[i] = "a"
\* String::from_utf8_lossy: an invalid byte becomes U+FFFD
Lossy(bytes) == [i \in 1..Len(bytes) |-> IF bytes[i] = "a" THEN "a" ELSE "U+FFFD"]
\* the length in bytes of a string: U+FFFD takes three
RECURSIVE StrLen(_)
StrLen(str) ==
    IF str = <<>> THEN 0
    ELSE (IF Head(str) = "U+FFFD" THEN 3 ELSE 1) + StrLen(Tail(str))
Base64Len(bytes) == 4 * ((Len(bytes) + 2) \div 3)

\* the values of Content-Encoding: "none" is no header
Encodings == {"none", "gzip", "x-gzip", "br"}

\* encoding.contains("gzip")
EncodingIsGzip(encoding) == encoding = "gzip"

EncodingContainsGzip(encoding) == encoding \in {"gzip", "x-gzip"}

from_bytes(bytes, content_encoding, max_size) ==
    LET gzip == EncodingContainsGzip(content_encoding)
        dec == decompress_gzip(bytes)
        working_bytes == IF gzip /\ dec.ok THEN dec.data ELSE bytes
        meta == [original_encoding |-> content_encoding, size_bytes |-> Len(bytes)]
    IN IF gzip /\ ~dec.ok
       THEN meta @@ [stored_size_bytes |-> 0, truncated |-> FALSE,
                     content |-> [type |-> "DecompressionFailed", data |-> <<>>]]
       ELSE IF working_bytes = <<>>
       THEN meta @@ [stored_size_bytes |-> 0, truncated |-> FALSE,
                     content |-> [type |-> "Empty", data |-> <<>>]]
       ELSE IF Len(working_bytes) > max_size
       THEN LET preview == Lossy(SubSeq(working_bytes, 1, Min(max_size, PreviewMax)))
            IN meta @@ [stored_size_bytes |-> StrLen(preview), truncated |-> TRUE,
                        content |-> [type |-> "Truncated", data |-> preview]]
       ELSE IF ValidUtf8(working_bytes)
       THEN meta @@ [stored_size_bytes |-> Len(working_bytes), truncated |-> FALSE,
                     content |-> [type |-> "Text", data |-> working_bytes]]
       ELSE meta @@ [stored_size_bytes |-> Base64Len(working_bytes), truncated |-> FALSE,
                     content |-> [type |-> "Binary", data |-> <<"base64", working_bytes>>]]

\* a variable of a call that was not made
NotComputed == [kind |-> "not_computed"]

(***************************************************************************)
(* redact_sensitive_headers (schema.rs).  A header name is a string, its   *)
(* value a sequence of tokens in which " " is a space.                     *)
(***************************************************************************)
SENSITIVE_HEADERS ==
    {"authorization", "cookie", "set-cookie", "api-key", "x-api-key", "x-auth-token",
     "x-session-token", "proxy-authorization", "www-authenticate", "authentication"}

HeaderNames ==
    {"Authorization", "authorization", "AUTHORIZATION", "Cookie", "X-API-Key",
     "Proxy-Authorization", "Content-Type", "x-request-id"}

HeaderValues ==
    { <<"Bearer", " ", "t">>, <<"t">>, <<" ", "t">>, <<>>, <<"a", " ", "b", " ", "c">> }

\* key.to_lowercase()
KeyAsGiven(key) == key

to_lowercase(key) ==
    CASE key \in {"Authorization", "authorization", "AUTHORIZATION"} -> "authorization"
      [] key = "Cookie" -> "cookie"
      [] key = "X-API-Key" -> "x-api-key"
      [] key = "Proxy-Authorization" -> "proxy-authorization"
      [] key = "Content-Type" -> "content-type"
      [] OTHER -> key

\* value.contains(' ')
ContainsSpace(value) == \E i \in 1..Len(value) : value[i] = " "

\* value.splitn(2, ' ') [0]: what stands before the first space
FirstPart(value) ==
    LET first == CHOOSE i \in 1..Len(value) :
                     value[i] = " " /\ \A j \in 1..(i - 1) : value[j] # " "
    IN SubSeq(value, 1, first - 1)

redact_sensitive_headers(hs) ==
    [key \in DOMAIN hs |->
        LET key_lower == to_lowercase(key)
        IN IF key_lower \in SENSITIVE_HEADERS
           THEN IF key_lower = "authorization" /\ ContainsSpace(hs[key])
                THEN <<"[REDACTED:">> \o FirstPart(hs[key]) \o <<"]">>
                ELSE <<"[REDACTED]">>
           ELSE hs[key]]

\* the bodies of up to MaxBodySize + 1 bytes
RECURSIVE BytesUpTo(_)
BytesUpTo(n) ==
    IF n = 0 THEN {<<>>}
    ELSE BytesUpTo(n - 1) \cup {Append(b, c) : b \in BytesUpTo(n - 1), c \in {"a", "x", "gz"}}

BodyInputs ==
    [bytes : BytesUpTo(MaxBodySize + 1), content_encoding : Encodings, max_size : 0..MaxBodySize]

\* log_request and log_response, proxy_server.rs:440 and 510
FromBytes ==
    /\ body_in # NotComputed
    /\ body_out = NotComputed
    /\ body_out' = from_bytes(body_in.bytes, body_in.content_encoding, body_in.max_size)
    /\ UNCHANGED <<headers, redacted, body_in, event, json, decoded>>
    /\ UNCHANGED <<sinkVars, today, wcount, readerVars, proxyVars, connVars, listenerVars,
                   certVars, caVars, hookVars, callVars>>

\* the maps of up to MaxHeaders headers
HeaderMaps ==
    UNION { [names -> HeaderValues] :
              names \in {ns \in SUBSET HeaderNames : Cardinality(ns) <= MaxHeaders} }

\* log_request and log_response, proxy_server.rs:438 and 508
Redact ==
    /\ headers # NotComputed
    /\ redacted = NotComputed
    /\ redacted' = redact_sensitive_headers(headers)
    /\ UNCHANGED <<headers, body_in, body_out, event, json, decoded>>
    /\ UNCHANGED <<sinkVars, today, wcount, readerVars, proxyVars, connVars, listenerVars,
                   certVars, caVars, hookVars, callVars>>

(***************************************************************************)
(* LogEntry and its serde form (schema.rs).  A JSON object is the sequence *)
(* of its <<key, value>> members in the order they are written; a scalar   *)
(* is a string, "null" being JSON null.  Option::None is NoneValue, and    *)
(* Some(Value::Null) of tool_input is SomeNull.                            *)
(***************************************************************************)
NoneValue == "<None>"
SomeNull == "<Some(Null)>"
DeError == [type |-> "de_error"]

RECURSIVE SetToSeq(_)
SetToSeq(S) ==
    IF S = {} THEN <<>>
    ELSE LET x == CHOOSE y \in S : TRUE IN <<x>> \o SetToSeq(S \ {x})

\* an Option field without skip_serializing_if: None is written as null
OptionMember(key, v) ==
    <<<<key, IF v \in {NoneValue, SomeNull} THEN "null" ELSE v>>>>

\* #[serde(skip_serializing_if = "Option::is_none")]
SkippedIfNone(key, v) == IF v = NoneValue THEN <<>> ELSE <<<<key, v>>>>

\* #[serde(flatten)] extra: its entries become members of the event object
Flatten(extra) ==
    LET keys == SetToSeq(DOMAIN extra)
    IN [i \in 1..Len(keys) |-> <<keys[i], extra[keys[i]]>>]

\* Serialize for LogEvent, #[serde(tag = "type")]: the tag, then the fields
\* of the variant in the order of their declaration
EventToJson(ev) ==
    <<<<"type", ev.type>>>> \o
    CASE ev.type = "Mcp" ->
            <<<<"level", ev.level>>, <<"message", ev.message>>>>
      [] ev.type = "Hook" ->
            <<<<"event_type", ev.event_type>>>>
            \o OptionMember("tool_name", ev.tool_name)
            \o OptionMember("tool_input", ev.tool_input)
            \o OptionMember("transcript_path", ev.transcript_path)
            \o OptionMember("cwd", ev.cwd)
            \o Flatten(ev.extra)
      [] ev.type = "ProxyRequest" ->
            <<<<"id", ev.id>>, <<"method", ev.method>>, <<"uri", ev.uri>>,
              <<"headers", ev.headers>>, <<"body", ev.body>>>>
            \o OptionMember("tls_handshake_ms", ev.tls_handshake_ms)
            \o SkippedIfNone("url_components", ev.url_components)
            \o SkippedIfNone("curl_command", ev.curl_command)
            \o SkippedIfNone("endpoint_pattern", ev.endpoint_pattern)
            \o SkippedIfNone("api_version", ev.api_version)
      [] ev.type = "ProxyResponse" ->
            <<<<"request_id", ev.request_id>>, <<"status", ev.status>>,
              <<"headers", ev.headers>>, <<"body", ev.body>>,
              <<"duration_ms", ev.duration_ms>>>>
      [] ev.type = "ProxyDebug" ->
            <<<<"level", ev.level>>, <<"message", ev.message>>>>
            \o OptionMember("module", ev.module)
            \o OptionMember("target", ev.target)
            \o OptionMember("file", ev.file)
            \o OptionMember("line", ev.line)

\* serde_json::to_writer(&mut writer, entry), log_writer.rs:79
to_json(e) ==
    [schema_version |-> e.schema_version, timestamp |-> e.timestamp, date |-> e.date,
     session_id |-> e.session_id, correlation_id |-> e.correlation_id,
     event |-> EventToJson(e.event)]

\* the members of object obj under the key
Members(obj, key) == {i \in 1..Len(obj) : obj[i][1] = key}
ValueOf(obj, key) == obj[CHOOSE i \in Members(obj, key) : TRUE][2]

\* a field of type T, not an Option: it must be there
Required(obj, key) == ValueOf(obj, key)
\* Option<T>: a missing member and null both read as None
Optional(obj, key) ==
    IF Members(obj, key) = {} \/ ValueOf(obj, key) = "null" THEN NoneValue ELSE ValueOf(obj, key)

RequiredOf(type) ==
    CASE type = "Mcp" -> {"level", "message"}
      [] type = "Hook" -> {"event_type"}
      [] type = "ProxyRequest" -> {"id", "method", "uri", "headers", "body"}
      [] type = "ProxyResponse" -> {"request_id", "status", "headers", "body", "duration_ms"}
      [] type = "ProxyDebug" -> {"level", "message"}
      [] OTHER -> {}

OptionalOf(type) ==
    CASE type = "Hook" -> {"tool_name", "tool_input", "transcript_path", "cwd"}
      [] type = "ProxyRequest" -> {"tls_handshake_ms", "url_components", "curl_command",
                                   "endpoint_pattern", "api_version"}
      [] type = "ProxyDebug" -> {"module", "target", "file", "line"}
      [] OTHER -> {}

\* Deserialize for LogEvent: the derived visitors take the tag and every
\* named field once, a second member under the same name is the error
\* "duplicate field"; the members under other names go to the flattened map
\* of Hook and are ignored by the other variants
EventFromJson(obj) ==
    IF Cardinality(Members(obj, "type")) # 1 THEN DeError
    ELSE LET type == ValueOf(obj, "type")
             named == RequiredOf(type) \cup OptionalOf(type)
         IN IF type \notin {"Mcp", "Hook", "ProxyRequest", "ProxyResponse", "ProxyDebug"}
            THEN DeError
            ELSE IF \E key \in named : Cardinality(Members(obj, key)) > 1
            THEN DeError
            ELSE IF \E key \in RequiredOf(type) : Members(obj, key) = {}
            THEN DeError
            ELSE LET fields == [key \in named |->
                                   IF key \in RequiredOf(type) THEN Required(obj, key)
                                   ELSE Optional(obj, key)]
                     others == {obj[i][1] : i \in 1..Len(obj)} \ (named \cup {"type"})
                 IN [type |-> type] @@ fields @@
                    (IF type = "Hook"
                     THEN [extra |-> [key \in others |-> ValueOf(obj, key)]]
                     ELSE <<>>)

\* serde_json::from_str::<LogEntry>(line_str), tail_reader.rs:44
from_json(j) ==
    LET ev == EventFromJson(j.event)
    IN IF ev = DeError THEN DeError
       ELSE [schema_version |-> j.schema_version, timestamp |-> j.timestamp, date |-> j.date,
             session_id |-> j.session_id, correlation_id |-> j.correlation_id, event |-> ev]

\* the constructors of LogEntry; the clock and the fresh uuid are fixed
Entry(session_id, correlation_id, ev) ==
    [schema_version |-> "1", timestamp |-> "2026-01-01T00:00:00Z", date |-> "2026-01-01",
     session_id |-> session_id, correlation_id |-> correlation_id, event |-> ev]

LogEntry_new_mcp(session_id, level, message) ==
    Entry(session_id, "uuid", [type |-> "Mcp", level |-> level, message |-> message])

new_hook(session_id, event_type, tool_name, tool_input, transcript_path, cwd, extra) ==
    Entry(session_id, "uuid",
          [type |-> "Hook", event_type |-> event_type, tool_name |-> tool_name,
           tool_input |-> tool_input, transcript_path |-> transcript_path, cwd |-> cwd,
           extra |-> extra])

new_proxy_request(session_id, correlation_id, request_id, tls_handshake_ms, url_components, curl_command, endpoint_pattern, api_version) ==
    Entry(session_id, correlation_id,
          [type |-> "ProxyRequest", id |-> request_id, method |-> "POST", uri |-> "/v1/messages",
           headers |-> "{}", body |-> "{body}", tls_handshake_ms |-> tls_handshake_ms,
           url_components |-> url_components, curl_command |-> curl_command,
           endpoint_pattern |-> endpoint_pattern, api_version |-> api_version])

new_proxy_response(session_id, correlation_id, request_id, status, duration_ms) ==
    Entry(session_id, correlation_id,
          [type |-> "ProxyResponse", request_id |-> request_id, status |-> status,
           headers |-> "{}", body |-> "{body}", duration_ms |-> duration_ms])

new_proxy_debug(session_id, level, message, module, target, file, line) ==
    Entry(session_id, "uuid",
          [type |-> "ProxyDebug", level |-> level, message |-> message, module |-> module,
           target |-> target, file |-> file, line |-> line])

\* the keys a hook payload may carry beside the named ones, and the maps of
\* up to MaxExtra of them
ExtraKeys == {"reason", "session_id", "event_type", "type"}
ExtraMaps ==
    UNION { [keys -> {"v", "null"}] :
              keys \in {ks \in SUBSET ExtraKeys : Cardinality(ks) <= MaxExtra} }

EventInputs ==
    { LogEntry_new_mcp("s", level, "m") : level \in {"INFO", "ERROR"} }
    \cup { new_hook("s", "PreToolUse", tool_name, tool_input, NoneValue, cwd, extra) :
             tool_name \in {NoneValue, "Bash"}, tool_input \in {NoneValue, SomeNull, "{cmd}"},
             cwd \in {NoneValue, "/w"}, extra \in ExtraMaps }
    \cup { new_proxy_request("s", "c", "r", NoneValue, uc, curl, ep, NoneValue) :
             uc \in {NoneValue, "{url}"}, curl \in {NoneValue, "curl"},
             ep \in {NoneValue, "/v1/messages"} }
    \cup { new_proxy_response("s", "c", "r", status, "5") : status \in {"200", "500"} }
    \cup { new_proxy_debug("s", "INFO", "m", module, NoneValue, NoneValue, line) :
             module \in {NoneValue, "proxy_server"}, line \in {NoneValue, "7"} }

\* write_sync serializes the entry
SerializeEntry ==
    /\ event # NotComputed
    /\ json = NotComputed
    /\ json' = to_json(event)
    /\ UNCHANGED <<headers, redacted, body_in, body_out, event, decoded>>
    /\ UNCHANGED <<sinkVars, today, wcount, readerVars, proxyVars, connVars, listenerVars,
                   certVars, caVars, hookVars, callVars>>

\* a reader of the log parses the line
DeserializeEntry ==
    /\ json # NotComputed
    /\ decoded = NotComputed
    /\ decoded' = from_json(json)
    /\ UNCHANGED <<headers, redacted, body_in, body_out, event, json>>
    /\ UNCHANGED <<sinkVars, today, wcount, readerVars, proxyVars, connVars, listenerVars,
                   certVars, caVars, hookVars, callVars>>

(***************************************************************************)
(* ProxyServer::forward_request, from one suspension point to the next.    *)
(***************************************************************************)
\* what upstream may answer: plain text, gzip of text, a body that claims
\* gzip and is not, a body larger than max_body_size
PlainResponse == [status |-> 200, enc |-> "none", body |-> <<"a">>]
LargeResponse == [status |-> 500, enc |-> "none", body |-> [i \in 1..(MaxBodySize + 1) |-> "a"]]
UpstreamResponses ==
    { PlainResponse,
      [status |-> 200, enc |-> "gzip", body |-> <<"gz", "a">>],
      [status |-> 404, enc |-> "gzip", body |-> <<"a">>],
      LargeResponse }

\* LogEntry::new_proxy_request as log_request calls it
ProxyRequestEntry(ids) ==
    [type |-> "ProxyRequest", id |-> ids.request_id,
     session_id |-> ids.session_id, correlation_id |-> ids.correlation_id,
     size |-> 1, date |-> today]

\* LogEntry::new_proxy_response as log_response calls it for response resp
ProxyResponseFreshIds(r, resp) ==
    LET body == from_bytes(resp.body, resp.enc, MaxBodySize)
    IN [type |-> "ProxyResponse", request_id |-> nextUuid,
        session_id |-> fids[r].session_id, correlation_id |-> nextUuid,
        status |-> resp.status, body |-> body,
        size |-> 1 + body.stored_size_bytes, date |-> today]
ProxyResponseEntry(r, resp) ==
    LET body == from_bytes(resp.body, resp.enc, MaxBodySize)
    IN [type |-> "ProxyResponse", request_id |-> fids[r].request_id,
        session_id |-> fids[r].session_id, correlation_id |-> fids[r].correlation_id,
        status |-> resp.status, body |-> body,
        size |-> 1 + body.stored_size_bytes, date |-> today]

\* LogEntry::new_proxy_debug as JsonlTracingLayer::on_event calls it: the
\* correlation id is a fresh uuid
ProxyDebugEntry(level, message, about) ==
    [type |-> "ProxyDebug", level |-> level, message |-> message, about |-> about,
     correlation_id |-> nextUuid, size |-> 1, date |-> today]

\* write_async(entry).await: the future resolves when the blocking job ended
WriteNotAwaited(j) == TRUE
WriteAwaitedAndOk(j) == jpc[j] = "ok"
WriteAwaited(j) == jpc[j] \in {"ok", "err"}

\* Uuid::new_v4() twice: request_id, and session_id which is also the
\* correlation id
FreshIds ==
    [request_id |-> nextUuid, session_id |-> nextUuid + 1, correlation_id |-> nextUuid + 1]

\* lines 309-336: the identifiers, the request body collected, and, when
\* bodies are recorded, log_request up to its write_async
FwdStart(r) ==
    /\ fpc[r] = "idle"
    /\ fids' = [fids EXCEPT ![r] = FreshIds]
    /\ nextUuid' = nextUuid + 2
    /\ fpc' = [fpc EXCEPT ![r] = "req_logging"]
    /\ IF include_bodies
       THEN StartWrite(<<"req", r>>, ProxyRequestEntry(FreshIds))
       ELSE UNCHANGED <<jpc, jentry, jpend>>
    /\ UNCHANGED <<files, lockHolder, okWrites, today, wcount, readerVars, connVars, otherVars,
                   include_bodies, fup, fclient>>

\* lines 316-320: body.collect().await? fails, forward_request returns the
\* error and hyper drops the connection
FwdBodyFail(r) ==
    /\ fpc[r] = "idle"
    /\ fids' = [fids EXCEPT ![r] = FreshIds]
    /\ nextUuid' = nextUuid + 2
    /\ fpc' = [fpc EXCEPT ![r] = "failed_body"]
    /\ fclient' = [fclient EXCEPT ![r] = [kind |-> "closed"]]
    /\ UNCHANGED <<sinkVars, today, wcount, readerVars, connVars, otherVars, include_bodies, fup>>

\* the request goes upstream only once a write of its request event ended
RequestLoggedAlways(r) == fpc[r] = "req_logging" /\ WriteAwaited(<<"req", r>>)
\* line 476, let _ = log_writer.write_async(entry).await: log_request is over
RequestLogged(r) ==
    fpc[r] = "req_logging" /\ (include_bodies => WriteAwaited(<<"req", r>>))

\* lines 338-397: the request is sent, the response and its body arrive,
\* and, when bodies are recorded, log_response up to its write_async
FwdUpstreamOk(r, resp) ==
    /\ RequestLogged(r)
    /\ fup' = [fup EXCEPT ![r] = resp]
    /\ fpc' = [fpc EXCEPT ![r] = "resp_logging"]
    /\ IF include_bodies
       THEN StartWrite(<<"resp", r>>, ProxyResponseEntry(r, resp))
       ELSE UNCHANGED <<jpc, jentry, jpend>>
    /\ UNCHANGED <<files, lockHolder, okWrites, today, wcount, readerVars, connVars, otherVars,
                   include_bodies, nextUuid, fids, fclient>>

\* lines 366-370: client.request fails (connect, TLS or HTTP error); the
\* closure logs with tracing::error!, which the tracing layer writes to the
\* log as a ProxyDebug event, before `?` returns the error
FwdUpstreamFail(r) ==
    /\ RequestLogged(r)
    /\ StartWrite(<<"trace", r>>,
                  ProxyDebugEntry("ERROR", "Failed to forward request", <<"req", r>>))
    /\ nextUuid' = nextUuid + 1
    /\ fpc' = [fpc EXCEPT ![r] = "fail_trace"]
    /\ UNCHANGED <<files, lockHolder, okWrites, today, wcount, readerVars, connVars, otherVars,
                   include_bodies, fids, fup, fclient>>

\* the error leaves forward_request: hyper drops the connection, the client
\* gets no response
FwdUpstreamFailReturn(r) ==
    /\ fpc[r] = "fail_trace"
    /\ jpc[<<"trace", r>>] \in {"ok", "err"}
    /\ fpc' = [fpc EXCEPT ![r] = "failed_upstream"]
    /\ fclient' = [fclient EXCEPT ![r] = [kind |-> "closed"]]
    /\ UNCHANGED <<sinkVars, today, wcount, readerVars, connVars, otherVars, include_bodies, nextUuid,
                   fids, fup>>

\* lines 378-381: resp_body.collect().await? fails and returns the error
FwdResponseBodyFail(r) ==
    /\ RequestLogged(r)
    /\ fpc' = [fpc EXCEPT ![r] = "failed_resp_body"]
    /\ fclient' = [fclient EXCEPT ![r] = [kind |-> "closed"]]
    /\ UNCHANGED <<sinkVars, today, wcount, readerVars, connVars, otherVars, include_bodies, nextUuid,
                   fids, fup>>

\* lines 399-406: the response is rebuilt from the upstream parts
RelayedDecoded(r) ==
    [kind |-> "response", status |-> fup[r].status, enc |-> fup[r].enc,
     body |-> from_bytes(fup[r].body, fup[r].enc, MaxBodySize).content.data]
RelayedResponse(r) ==
    [kind |-> "response", status |-> fup[r].status, enc |-> fup[r].enc,
     body |-> fup[r].body]

\* line 529, let _ = log_writer.write_async(entry).await: log_response is
\* over; the response goes to the client
FwdRelay(r) ==
    /\ fpc[r] = "resp_logging"
    /\ include_bodies => WriteAwaited(<<"resp", r>>)
    /\ fclient' = [fclient EXCEPT ![r] = RelayedResponse(r)]
    /\ fpc' = [fpc EXCEPT ![r] = "done"]
    /\ UNCHANGED <<sinkVars, today, wcount, readerVars, connVars, otherVars, include_bodies, nextUuid,
                   fids, fup>>

\* tokio::task::spawn_blocking(move || writer.write_sync(&entry)): the closure
\* belongs to the blocking pool, and dropping the JoinHandle that write_async
\* awaits detaches it: the job goes on from where it stands
JobKilledWithTask(j) ==
    IF jpc[j] \in {"called", "opened", "locked", "flushed"} THEN "killed" ELSE jpc[j]

JobAfterCancel(j) == jpc[j]

\* the client goes away and hyper drops the connection future while
\* forward_request is suspended at an await: on write_async (log_request,
\* log_response), on the upstream request or on a body
Cancel(r) ==
    /\ fpc[r] \in {"req_logging", "resp_logging"}
    /\ fpc' = [fpc EXCEPT ![r] = "cancelled"]
    /\ fclient' = [fclient EXCEPT ![r] = [kind |-> "closed"]]
    /\ jpc' = [j \in Jobs |->
                 IF j \in {<<"req", r>>, <<"resp", r>>} THEN JobAfterCancel(j) ELSE jpc[j]]
    /\ UNCHANGED <<files, lockHolder, jentry, jpend, okWrites, today, wcount, readerVars,
                   connVars, otherVars, include_bodies, nextUuid, fids, fup>>

(***************************************************************************)
(* ProxyServer::proxy_request and handle_http_proxy for a request whose    *)
(* method is not CONNECT.                                                  *)
(***************************************************************************)
\* proxy_request, lines 108-111: tracing::info!("{} {}", method, uri), which
\* the tracing layer writes to the log on the thread of the request
ProxyRequestPlain(r) ==
    /\ fpc[r] = "idle"
    /\ jpc[<<"trace", r>>] = "idle"
    /\ StartWrite(<<"trace", r>>, ProxyDebugEntry("INFO", "method uri", <<"req", r>>))
    /\ nextUuid' = nextUuid + 1
    /\ UNCHANGED <<files, lockHolder, okWrites, today, wcount, readerVars, connVars, otherVars,
                   include_bodies, fpc, fids, fup, fclient>>

\* the plain request is handed on only when target_hosts is empty
HandleHttpProxyFiltered(r) ==
    /\ target_hosts = {}
    /\ jpc[<<"trace", r>>] \in {"ok", "err"}
    /\ FwdStart(r)
\* proxy_request, lines 114-119: the method is not CONNECT, so
\* handle_http_proxy is called, which calls forward_request with the URI of
\* the request (lines 292-299); target_hosts is not read
HandleHttpProxy(r) ==
    /\ jpc[<<"trace", r>>] \in {"ok", "err"}
    /\ FwdStart(r)

(***************************************************************************)
(* ProxyServer::proxy_request, handle_connect, tunnel and mitm_tunnel for  *)
(* a CONNECT request.  An authority and an entry of target_hosts are       *)
(* sequences of characters.  Every tracing event at INFO or above goes     *)
(* through JsonlTracingLayer::on_event, which builds a ProxyDebug entry    *)
(* and calls write_sync on the thread that emitted the event; the          *)
(* tracing::debug! events stay below the INFO filter of main.rs:516.       *)
(***************************************************************************)
\* "a:4", "b", "[::1]:4", and a request URI without authority
Authorities ==
    { <<"a", ":", "4">>, <<"b">>, <<"[", ":", ":", "1", "]", ":", "4">>, <<>> }
\* no filter, ["a"], ["b", "::1"]
TargetHostLists == { {}, {<<"a">>}, {<<"b">>, <<":", ":", "1">>} }
TunnelBytes == {"p", "q"}

FirstColon(str) ==
    CHOOSE i \in 1..Len(str) : str[i] = ":" /\ \A j \in 1..(i - 1) : str[j] # ":"
\* authority.split(':').next().unwrap_or(&authority)
hostname(authority) ==
    IF \E i \in 1..Len(authority) : authority[i] = ":"
    THEN SubSeq(authority, 1, FirstColon(authority) - 1)
    ELSE authority
\* str::contains
Contains(str, h) == \E i \in 0..(Len(str) - Len(h)) : SubSeq(str, i + 1, i + Len(h)) = h
\* target_hosts.is_empty() || target_hosts.iter().any(|h| hostname.contains(h))
should_intercept(authority) ==
    target_hosts = {} \/ \E h \in target_hosts : Contains(hostname(authority), h)

\* on_event for an event emitted while serving connection c
Trace(c, level, message) ==
    /\ StartWrite(<<"ctrace", c>>, ProxyDebugEntry(level, message, <<"conn", c>>))
    /\ nextUuid' = nextUuid + 1
\* write_log returned: let _ = self.log_writer.write_sync(&entry)
Traced(c) == jpc[<<"ctrace", c>>] \in {"ok", "err"}

\* what the steps of a connection leave alone
ConnFrame ==
    UNCHANGED <<files, lockHolder, okWrites, today, wcount, readerVars,
                include_bodies, fpc, fids, fup, fclient, target_hosts, otherVars>>

\* ProxyServer::run, lines 59-71: listener.accept().await? returns a
\* stream and handle_connection is spawned for it as a task of its own
Accept(c) ==
    /\ lpc = "listening"
    /\ accepted < MaxAccepts
    /\ cpc[c] = "idle"
    /\ accepted' = accepted + 1
    /\ cpc' = [cpc EXCEPT ![c] = "accepted"]
    /\ UNCHANGED <<sinkVars, today, wcount, readerVars, proxyVars, target_hosts,
                   cauth, cmode, cresp, tun, lpc, extraVars>>

\* ProxyServer::run, lines 66-70: the connection is served in a task of its
\* own (tokio::spawn) whose JoinHandle is dropped; an Err of
\* handle_connection is logged inside the task, a panic ends the task only:
\* the accept loop is where it was
RunEndsWithTask(c) == "returned"
RunAfterTask(c) == lpc

\* ProxyServer::run, line 60: accept() returns Err and `?` ends run
AcceptFail ==
    /\ lpc = "listening"
    /\ lpc' = "returned"
    /\ UNCHANGED <<sinkVars, today, wcount, readerVars, proxyVars, connVars, accepted, extraVars>>

\* proxy_request, lines 108-110: tracing::info!("{} {}", method, uri)
ProxyRequest(c, authority) ==
    /\ cpc[c] = "accepted"
    /\ cauth' = [cauth EXCEPT ![c] = authority]
    /\ Trace(c, "INFO", "CONNECT uri")
    /\ cpc' = [cpc EXCEPT ![c] = "request_traced"]
    /\ UNCHANGED <<cmode, cresp, tun>>
    /\ ConnFrame

\* handle_connect, lines 129-141: the authority is there;
\* tracing::info!("CONNECT to {}", authority)
HandleConnect(c) ==
    /\ cpc[c] = "request_traced" /\ Traced(c)
    /\ cauth[c] # <<>>
    /\ Trace(c, "INFO", "CONNECT to")
    /\ cpc' = [cpc EXCEPT ![c] = "connect_traced"]
    /\ UNCHANGED <<cauth, cmode, cresp, tun>>
    /\ ConnFrame

\* handle_connect, lines 129-136: no authority; tracing::error! and Err
HandleConnectNoAuthority(c) ==
    /\ cpc[c] = "request_traced" /\ Traced(c)
    /\ cauth[c] = <<>>
    /\ Trace(c, "ERROR", "CONNECT missing authority")
    /\ cpc' = [cpc EXCEPT ![c] = "missing_traced"]
    /\ UNCHANGED <<cauth, cmode, cresp, tun>>
    /\ ConnFrame

\* the Err leaves the service: hyper drops the connection
ConnectRejected(c) ==
    /\ cpc[c] = "missing_traced" /\ Traced(c)
    /\ cresp' = [cresp EXCEPT ![c] = [kind |-> "closed"]]
    /\ cpc' = [cpc EXCEPT ![c] = "closed"]
    /\ UNCHANGED <<sinkVars, today, wcount, readerVars, proxyVars, target_hosts, otherVars,
                   cauth, cmode, tun>>

\* handle_connect, lines 143-195: the decision, the task spawned for the
\* upgraded connection, and Ok(Response::new(full("")))
ConnectDecide(c) ==
    /\ cpc[c] = "connect_traced" /\ Traced(c)
    /\ cmode' = [cmode EXCEPT ![c] =
                    IF should_intercept(cauth[c]) THEN "mitm" ELSE "passthrough"]
    /\ cresp' = [cresp EXCEPT ![c] = [kind |-> "response", status |-> 200, body |-> <<>>]]
    /\ cpc' = [cpc EXCEPT ![c] = "upgrading"]
    /\ UNCHANGED <<sinkVars, today, wcount, readerVars, proxyVars, target_hosts, otherVars,
                   cauth, tun>>

\* upgrade.await is Ok(upgraded)
UpgradeOk(c) ==
    /\ cpc[c] = "upgrading"
    /\ cpc' = [cpc EXCEPT ![c] = IF cmode[c] = "mitm" THEN "mitm_cert" ELSE "tunnel_connecting"]
    /\ UNCHANGED <<sinkVars, today, wcount, readerVars, proxyVars, target_hosts, otherVars,
                   cauth, cmode, cresp, tun>>

\* upgrade.await is Err: tracing::error!("... upgrade error ...")
UpgradeFail(c) ==
    /\ cpc[c] = "upgrading"
    /\ Trace(c, "ERROR", "upgrade error")
    /\ cpc' = [cpc EXCEPT ![c] = "error_traced"]
    /\ UNCHANGED <<cauth, cmode, cresp, tun>>
    /\ ConnFrame

\* tunnel, lines 248-250: TcpStream::connect(&host) succeeds
TunnelConnect(c) ==
    /\ cpc[c] = "tunnel_connecting"
    /\ cpc' = [cpc EXCEPT ![c] = "tunnel_open"]
    /\ UNCHANGED <<sinkVars, today, wcount, readerVars, proxyVars, target_hosts, otherVars,
                   cauth, cmode, cresp, tun>>

\* tunnel returns Err (the connect or a copy failed):
\* tracing::error!("Tunnel error for {}: {}")
TunnelFail(c) ==
    /\ cpc[c] \in {"tunnel_connecting", "tunnel_open"}
    /\ Trace(c, "ERROR", "Tunnel error")
    /\ cpc' = [cpc EXCEPT ![c] = "error_traced"]
    /\ UNCHANGED <<cauth, cmode, cresp, tun>>
    /\ ConnFrame

\* the client, or the target, writes a byte to its end of the tunnel
ClientSend(c, byte) ==
    /\ cpc[c] = "tunnel_open"
    /\ Len(tun[c].up_sent) < MaxTunnelBytes
    /\ tun' = [tun EXCEPT ![c].up_sent = Append(@, byte)]
    /\ UNCHANGED <<sinkVars, today, wcount, readerVars, proxyVars, target_hosts, otherVars,
                   cpc, cauth, cmode, cresp>>

ServerSend(c, byte) ==
    /\ cpc[c] = "tunnel_open"
    /\ Len(tun[c].down_sent) < MaxTunnelBytes
    /\ tun' = [tun EXCEPT ![c].down_sent = Append(@, byte)]
    /\ UNCHANGED <<sinkVars, today, wcount, readerVars, proxyVars, target_hosts, otherVars,
                   cpc, cauth, cmode, cresp>>

\* tokio::io::copy(&mut client_read, &mut server_write)
CopyClientToServer(c) ==
    /\ cpc[c] = "tunnel_open"
    /\ Len(tun[c].up_recv) < Len(tun[c].up_sent)
    /\ tun' = [tun EXCEPT ![c].up_recv = Append(@, tun[c].up_sent[Len(@) + 1])]
    /\ UNCHANGED <<sinkVars, today, wcount, readerVars, proxyVars, target_hosts, otherVars,
                   cpc, cauth, cmode, cresp>>

\* tokio::io::copy(&mut server_read, &mut client_write)
CopyServerToClient(c) ==
    /\ cpc[c] = "tunnel_open"
    /\ Len(tun[c].down_recv) < Len(tun[c].down_sent)
    /\ tun' = [tun EXCEPT ![c].down_recv = Append(@, tun[c].down_sent[Len(@) + 1])]
    /\ UNCHANGED <<sinkVars, today, wcount, readerVars, proxyVars, target_hosts, otherVars,
                   cpc, cauth, cmode, cresp>>

\* both sides reached EOF: try_join! returns Ok
TunnelEof(c) ==
    /\ cpc[c] = "tunnel_open"
    /\ tun[c].up_recv = tun[c].up_sent
    /\ tun[c].down_recv = tun[c].down_sent
    /\ cpc' = [cpc EXCEPT ![c] = "closed"]
    /\ UNCHANGED <<sinkVars, today, wcount, readerVars, proxyVars, target_hosts, otherVars,
                   cauth, cmode, cresp, tun>>

\* the inner HTTP connection is served on the upgraded stream as it is
MitmCertificateThenServe(c) ==
    /\ cpc[c] = "mitm_cert"
    /\ cpc' = [cpc EXCEPT ![c] = "mitm_serving"]
    /\ UNCHANGED <<sinkVars, today, wcount, readerVars, proxyVars, target_hosts, otherVars,
                   cauth, cmode, cresp, tun>>

\* mitm_tunnel, lines 205-224: the leaf certificate, then the TLS accept
MitmCertificate(c) ==
    /\ cpc[c] = "mitm_cert"
    /\ cpc' = [cpc EXCEPT ![c] = "mitm_tls"]
    /\ UNCHANGED <<sinkVars, today, wcount, readerVars, proxyVars, target_hosts, otherVars,
                   cauth, cmode, cresp, tun>>

MitmTlsAccept(c) ==
    /\ cpc[c] = "mitm_tls"
    /\ cpc' = [cpc EXCEPT ![c] = "mitm_serving"]
    /\ UNCHANGED <<sinkVars, today, wcount, readerVars, proxyVars, target_hosts, otherVars,
                   cauth, cmode, cresp, tun>>

\* mitm_tunnel returns Err: tracing::error!("MITM tunnel error for {}: {}")
MitmFail(c) ==
    /\ cpc[c] \in {"mitm_cert", "mitm_tls", "mitm_serving"}
    /\ Trace(c, "ERROR", "MITM tunnel error")
    /\ cpc' = [cpc EXCEPT ![c] = "error_traced"]
    /\ UNCHANGED <<cauth, cmode, cresp, tun>>
    /\ ConnFrame

\* handle_https_request, lines 273-288: tracing::info!("HTTPS: {} {}");
\* forward_request follows (the inner request of connection c is request c)
HandleHttpsRequest(c) ==
    /\ cpc[c] = "mitm_serving"
    /\ fpc[c] = "idle"
    /\ Trace(c, "INFO", "HTTPS: method uri")
    /\ cpc' = [cpc EXCEPT ![c] = "https_request"]
    /\ UNCHANGED <<cauth, cmode, cresp, tun>>
    /\ ConnFrame

\* handle_https_request, line 289: Self::forward_request(req, full_uri, ...)
HttpsForward(c) ==
    /\ cpc[c] = "https_request" /\ Traced(c)
    /\ FwdStart(c)

\* the inner request is over and the client closes the connection
MitmServed(c) ==
    /\ cpc[c] = "https_request"
    /\ fpc[c] \in {"done", "failed_body", "failed_upstream", "failed_resp_body"}
    /\ cpc' = [cpc EXCEPT ![c] = "closed"]
    /\ UNCHANGED <<sinkVars, today, wcount, readerVars, proxyVars, target_hosts, otherVars,
                   cauth, cmode, cresp, tun>>

\* mitm_tunnel, lines 236-243: the client closes the TLS stream,
\* serve_connection returns Ok and the task ends
MitmClientClose(c) ==
    /\ cpc[c] = "mitm_serving"
    /\ cpc' = [cpc EXCEPT ![c] = "closed"]
    /\ UNCHANGED <<sinkVars, today, wcount, readerVars, proxyVars, target_hosts, otherVars,
                   cauth, cmode, cresp, tun>>

\* handle_https_request, line 289: full_uri.parse().unwrap() panics inside
\* the task handle_connect spawned; tokio ends that task only
ConnPanic(c) ==
    /\ cpc[c] = "mitm_serving"
    /\ cpc' = [cpc EXCEPT ![c] = "panicked"]
    /\ lpc' = RunAfterTask(c)
    /\ UNCHANGED <<sinkVars, today, wcount, readerVars, proxyVars, target_hosts, accepted,
                   cauth, cmode, cresp, tun, extraVars>>

\* the spawned task ends after its error is logged
ConnErrorLogged(c) ==
    /\ cpc[c] = "error_traced" /\ Traced(c)
    /\ cpc' = [cpc EXCEPT ![c] = "closed"]
    /\ lpc' = RunAfterTask(c)
    /\ UNCHANGED <<sinkVars, today, wcount, readerVars, proxyVars, target_hosts, accepted,
                   cauth, cmode, cresp, tun, extraVars>>

\* the task of a connection is over (it returned or it panicked) and its
\* JoinHandle was dropped at the spawn: nothing of it is left
TaskGone(c) ==
    /\ cpc[c] \in {"closed", "panicked"}
    /\ cpc' = [cpc EXCEPT ![c] = "idle"]
    /\ cauth' = [cauth EXCEPT ![c] = <<>>]
    /\ cmode' = [cmode EXCEPT ![c] = "none"]
    /\ cresp' = [cresp EXCEPT ![c] = [kind |-> "pending"]]
    /\ tun' = [tun EXCEPT ![c] = [up_sent |-> <<>>, up_recv |-> <<>>,
                                  down_sent |-> <<>>, down_recv |-> <<>>]]
    /\ UNCHANGED <<sinkVars, today, wcount, readerVars, proxyVars, target_hosts, otherVars>>

(***************************************************************************)
(* run_hook_mode_sync (main.rs): the hook process reads its standard       *)
(* input, builds one Hook entry and writes it.  The input is text that is  *)
(* no JSON, a JSON value that is no object, or an object given by its      *)
(* members; a member's value is a string, or "<number>", a value that is   *)
(* no string.                                                              *)
(***************************************************************************)
NoExit == -1
PayloadKeys == {"hook_event_name", "tool_name", "session_id", "event_type", "type", "reason"}
HookPayloads ==
    UNION { [keys -> {"v", "<number>"}] :
              keys \in {ks \in SUBSET PayloadKeys : Cardinality(ks) <= MaxPayloadKeys} }
HookStdins ==
    {[json |-> FALSE, object |-> FALSE, members |-> <<>>],
     [json |-> TRUE, object |-> FALSE, members |-> <<>>]}
    \cup {[json |-> TRUE, object |-> TRUE, members |-> m] : m \in HookPayloads}

\* the fields HookEventInput names (main.rs:97-113); all but tool_input are
\* Option<String>
HookInputStrings == {"hook_event_name", "tool_name", "session_id", "transcript_path", "cwd"}
HookInputNamed == HookInputStrings \cup {"tool_input"}

\* serde_json::from_str::<HookEventInput>(&buffer) succeeds: the document is
\* an object and no named string field holds another kind of value
ParsesAsHookEventInput(in) ==
    /\ in.object
    /\ \A key \in DOMAIN in.members \cap HookInputStrings : in.members[key] # "<number>"

\* a named field: of the parsed struct, or json.get(key).and_then(as_str) on
\* the raw value (lines 559-567)
HookField(in, key) ==
    IF in.object /\ key \in DOMAIN in.members /\ in.members[key] # "<number>"
    THEN in.members[key]
    ELSE NoneValue

\* #[serde(flatten)] extra of HookEventInput: the members under other names;
\* the raw-value path leaves it empty (line 566)
HookExtra(in) ==
    IF ParsesAsHookEventInput(in)
    THEN [key \in DOMAIN in.members \ HookInputNamed |-> in.members[key]]
    ELSE <<>>

\* lines 587-595: LogEntry::new_hook with the defaults of unwrap_or_else
HookEntry(in) ==
    new_hook(IF HookField(in, "session_id") = NoneValue THEN "uuid"
             ELSE HookField(in, "session_id"),
             IF HookField(in, "hook_event_name") = NoneValue THEN "Unknown"
             ELSE HookField(in, "hook_event_name"),
             HookField(in, "tool_name"),
             IF in.object /\ "tool_input" \in DOMAIN in.members
             THEN in.members["tool_input"] ELSE NoneValue,
             HookField(in, "transcript_path"), HookField(in, "cwd"), HookExtra(in))

\* lines 547-598: the input is read and parsed; input that is no JSON makes
\* the function return Err, and main exits with a non-zero code; else the
\* entry is built and write_sync is called
HookRead ==
    /\ hpc = "start"
    /\ IF ~stdin.json
       THEN /\ hpc' = "exited"
            /\ hexit' = 1
            /\ UNCHANGED <<jpc, jentry, jpend>>
       ELSE /\ hpc' = "writing"
            /\ hexit' = hexit
            /\ StartWrite(HookJob, [type |-> "Hook", id |-> HookJob, size |-> 1, date |-> today,
                                    entry |-> HookEntry(stdin)])
    /\ UNCHANGED <<files, lockHolder, okWrites, stdin, today, wcount, readerVars, proxyVars,
                   connVars, listenerVars, certVars, caVars, schemaVars, callVars>>

\* lines 597-602: write_sync returned; Err goes out through `?`
HookExit ==
    /\ hpc = "writing"
    /\ jpc[HookJob] \in {"ok", "err"}
    /\ hpc' = "exited"
    /\ hexit' = IF jpc[HookJob] = "ok" THEN 0 ELSE 1
    /\ UNCHANGED <<sinkVars, stdin, today, wcount, readerVars, proxyVars,
                   connVars, listenerVars, certVars, caVars, schemaVars, callVars>>

\* serde_json::from_str::<LogEntry>(line_str) on a line of the log that holds
\* the entry of a hook process
ParseLogEntry(line) ==
    IF Parse(line) = ParseFail THEN DeError
    ELSE from_json(to_json(Parse(line).entry))

(***************************************************************************)
(* The date argument of the read_logs and clear_log tools (main.rs).  A    *)
(* string is a sequence of characters; "e'" stands for a character of two  *)
(* bytes in UTF-8, every other character has one byte.                     *)
(***************************************************************************)
Digits == {"0", "1", "2", "3", "4", "5", "6", "7", "8", "9"}
Utf8Len(c) == IF c = "e'" THEN 2 ELSE 1

\* str::len: the number of bytes
RECURSIVE ByteLen(_)
ByteLen(str) == IF str = <<>> THEN 0 ELSE Utf8Len(Head(str)) + ByteLen(Tail(str))

\* str.chars().nth(n).map_or(false, |c| c == ch); n counts from 0
NthCharIs(str, n, ch) == Len(str) > n /\ str[n + 1] = ch

\* a length of ten bytes, not of ten characters
DateLenIsTen(date) == ByteLen(date) = 10

\* validate_date_format, main.rs:158-168
validate_date_format(date) ==
    IF ~DateLenIsTen(date) \/ ~NthCharIs(date, 4, "-") \/ ~NthCharIs(date, 7, "-")
    THEN "Err(INVALID_PARAMS)"
    ELSE "Ok"

\* LogWriter::get_log_file_path: self.logs_dir.join(format!("{}.jsonl", date));
\* PathBuf::join with an absolute path replaces the base
get_log_file_path(date) ==
    IF NthCharIs(date, 0, "/")
    THEN [base |-> "", name |-> date, ext |-> ".jsonl"]
    ELSE [base |-> "logs_dir", name |-> date, ext |-> ".jsonl"]

\* the arguments: a well-formed date in which up to MaxEdits characters are
\* replaced or dropped, and one that is a character longer
WellFormedDate == <<"2", "0", "2", "6", "-", "0", "1", "-", "0", "1">>
DateEdits == {"drop", "-", "a", "/", ".", "7", "e'"}
EditPlans ==
    UNION { [at -> DateEdits] :
              at \in {ps \in SUBSET (1..Len(WellFormedDate)) : Cardinality(ps) <= MaxEdits} }
Edited(plan) ==
    SelectSeq([i \in 1..Len(WellFormedDate) |->
                  IF i \in DOMAIN plan THEN plan[i] ELSE WellFormedDate[i]],
              LAMBDA c : c # "drop")
DateArguments == {Edited(plan) : plan \in EditPlans} \cup {WellFormedDate \o <<"0">>}
DateCalls == [fn : {"read_logs", "clear_log"}, date : DateArguments]

\* read_logs, main.rs:206-222, up to the file it opens: the date given (the
\* default, today's date, is well formed) is validated and the path built
ReadLogs ==
    /\ call \in DateCalls /\ call.fn = "read_logs"
    /\ result = NotComputed
    /\ result' = IF validate_date_format(call.date) = "Ok"
                 THEN [kind |-> "addressed", path |-> get_log_file_path(call.date)]
                 ELSE [kind |-> validate_date_format(call.date)]
    /\ UNCHANGED <<sinkVars, today, wcount, readerVars, proxyVars, connVars, listenerVars,
                   certVars, caVars, schemaVars, hookVars, call>>

\* clear_log, main.rs:398-427, up to the file it truncates with File::create
ClearLog ==
    /\ call \in DateCalls /\ call.fn = "clear_log"
    /\ result = NotComputed
    /\ result' = IF validate_date_format(call.date) = "Ok"
                 THEN [kind |-> "addressed", path |-> get_log_file_path(call.date)]
                 ELSE [kind |-> validate_date_format(call.date)]
    /\ UNCHANGED <<sinkVars, today, wcount, readerVars, proxyVars, connVars, listenerVars,
                   certVars, caVars, schemaVars, hookVars, call>>

(***************************************************************************)
(* ProxyServer::log_request (proxy_server.rs:431-473): the headers and the *)
(* curl_command of the ProxyRequest event.  A command is the sequence of   *)
(* its parts: the -X part, one -H part per header, the -d part.            *)
(***************************************************************************)
\* header names as http::HeaderName gives them (lower case), and values
CurlHeaderNames == {"authorization", "x-api-key", "content-type", "host"}
CurlHeaderValues ==
    { <<"Bearer", " ", "s">>, <<"Bearer", " ", "t">>, <<"Basic", " ", "s">>, <<"s">> }
CurlHeaderMaps ==
    UNION { [names -> CurlHeaderValues] :
              names \in {ns \in SUBSET CurlHeaderNames : Cardinality(ns) <= MaxHeaders} }
CurlBodies == { <<>>, <<"{", "}">> }

\* the orders in which the iteration over a HashMap may give its keys
Orders(keys) ==
    {o \in [1..Cardinality(keys) -> keys] : \A i, k \in DOMAIN o : o[i] = o[k] => i = k}

\* line 450: the header map generate_curl_command is given
CurlFromRawHeaders(headers_map, redacted_headers) == headers_map
CurlHeaders(headers_map, redacted_headers) == redacted_headers

\* generate_curl_command, lines 613-642, with the order the map iteration took
generate_curl_command(method, uri, hs, body, order) ==
    <<[opt |-> "-X", method |-> method, uri |-> uri]>>
    \o [i \in 1..Len(order) |-> [opt |-> "-H", key |-> order[i], value |-> hs[order[i]]]]
    \o (IF body = <<>> THEN <<>> ELSE <<[opt |-> "-d", body |-> body]>>)

\* the keys that are not skipped (lines 624-626)
CurlKeys(hs) == {key \in DOMAIN hs : to_lowercase(key) \notin {"host", "content-length"}}

\* two requests with the same method, URI, body and header names
CurlCalls == [fn : {"log_request"}, body : CurlBodies, headers : CurlHeaderMaps \X CurlHeaderMaps]

\* log_request for request i of the call: lines 438 and 450
LogRequest(i) ==
    /\ call \in CurlCalls /\ DOMAIN call.headers[1] = DOMAIN call.headers[2]
    /\ result[i] = NotComputed
    /\ LET headers_map == call.headers[i]
           redacted_headers == redact_sensitive_headers(headers_map)
           given == CurlHeaders(headers_map, redacted_headers)
       IN \E order \in Orders(CurlKeys(given)) :
             result' = [result EXCEPT ![i] =
                          [headers |-> redacted_headers,
                           curl_command |-> generate_curl_command("POST", "uri", given,
                                                                  call.body, order)]]
    /\ UNCHANGED <<sinkVars, today, wcount, readerVars, proxyVars, connVars, listenerVars,
                   certVars, caVars, schemaVars, hookVars, call>>

(***************************************************************************)
(* ProxyServer::extract_api_version (proxy_server.rs:595-610).  A path is  *)
(* the sequence of its segments, uri.path().split('/'); a segment is a     *)
(* sequence of characters.                                                 *)
(***************************************************************************)
PathSegments ==
    { <<>>, <<"v">>, <<"v", "1">>, <<"v", "2", ".", "0">>, <<"v", ".">>, <<"v", "x">>,
      <<"v", "1", "x">>, <<"x", "v", "1">>, <<"1">>, <<"V", "1">>, <<"x">> }
Paths == UNION {[1..n -> PathSegments] : n \in 0..MaxSegments}
VersionHeaders ==
    UNION {[names -> {"2023-06-01", "2024-02-01"}] :
              names \in SUBSET {"anthropic-version", "api-version", "content-type"}}
VersionCalls == [fn : {"extract_api_version"}, path : Paths, headers : VersionHeaders]

\* s.starts_with('v') && s[1..].chars().all(|c| c.is_numeric() || c == '.')
IsVersionSegment(seg) ==
    /\ Len(seg) >= 1 /\ seg[1] = "v"
    /\ \A i \in 2..Len(seg) : seg[i] \in Digits \cup {"."}

\* Option<String>
None == [none |-> TRUE]
Some(text) == [some |-> text]

\* lines 595-610
extract_api_version(path, hs) ==
    IF \E i \in 1..Len(path) : IsVersionSegment(path[i])
    THEN Some(path[CHOOSE i \in 1..Len(path) :
                      /\ IsVersionSegment(path[i])
                      /\ \A k \in 1..(i - 1) : ~IsVersionSegment(path[k])])
    ELSE IF "anthropic-version" \in DOMAIN hs THEN Some(hs["anthropic-version"])
    ELSE IF "api-version" \in DOMAIN hs THEN Some(hs["api-version"])
    ELSE None

\* log_request, line 447: Self::extract_api_version(uri, &headers_map)
ExtractApiVersion ==
    /\ call \in VersionCalls
    /\ result = NotComputed
    /\ result' = extract_api_version(call.path, call.headers)
    /\ UNCHANGED <<sinkVars, today, wcount, readerVars, proxyVars, connVars, listenerVars,
                   certVars, caVars, schemaVars, hookVars, call>>

(***************************************************************************)
(* clear_log on the daily file of a day, next to the writers of that file. *)
(***************************************************************************)
\* clear_log(date) with the well-formed date of day d whose file exists (a
\* file that holds bytes does): File::create(&log_file_path) truncates the
\* file to length 0; no lock is taken. On a missing file the call returns
\* INVALID_PARAMS and changes nothing.
ClearLogFile(d) ==
    /\ files[d] # <<>>
    /\ files' = [files EXCEPT ![d] = <<>>]
    /\ UNCHANGED <<lockHolder, jpc, jentry, jpend, okWrites, aroundSink>>

(***************************************************************************)
(* CertificateManager::new: the root CA is loaded from ca.pem and ca.key   *)
(* when both files exist, generated and saved otherwise.  A key pair is    *)
(* named by the start that generated it; a certificate records the key     *)
(* that signed it and the start at which it was signed (self_signed makes  *)
(* a new signature each time).  The process may be stopped at any step.    *)
(***************************************************************************)
Absent == [kind |-> "absent"]
NoCa == [kind |-> "none"]
PemError == [kind |-> "pem_error"]

\* keypair.serialize_pem(): the label lines around the encoded key
serialize_pem(k) == <<"BEGIN PRIVATE KEY", k, "END PRIVATE KEY">>

\* KeyPair::from_pem(&key_pem)
from_pem(bytes) ==
    IF /\ bytes # Absent
       /\ Len(bytes) = 3
       /\ bytes[1] = "BEGIN PRIVATE KEY"
       /\ bytes[3] = "END PRIVATE KEY"
    THEN bytes[2]
    ELSE PemError

\* cert.pem(): the label lines around the encoded certificate
cert_pem(c) == <<"BEGIN CERTIFICATE", c, "END CERTIFICATE">>

\* CertificateParams::from_ca_cert_pem(&cert_pem): the parameters of the
\* certificate, without its signature
from_ca_cert_pem(bytes) ==
    IF /\ bytes # Absent
       /\ Len(bytes) = 3
       /\ bytes[1] = "BEGIN CERTIFICATE"
       /\ bytes[3] = "END CERTIFICATE"
    THEN [cn |-> bytes[2].cn]
    ELSE PemError

\* KeyPair::generate() at start n
generate(n) == [key |-> n]

\* params.self_signed(&keypair)
self_signed(params, k, n) == [cn |-> params.cn, key |-> k, signed_at |-> n]

\* line 37: ca_cert_path.exists() && ca_key_path.exists()
BothExistNever == FALSE

BothExist == capem # Absent /\ cakey # Absent

\* the process starts and ProxyServer::new calls CertificateManager::new
NewStart ==
    /\ npc = "down"
    /\ starts < MaxStarts
    /\ starts' = starts + 1
    /\ npc' = "check"
    /\ UNCHANGED <<capem, cakey, root_ca, root_ca_keypair>>
    /\ UNCHANGED <<sinkVars, today, wcount, readerVars, proxyVars, connVars, listenerVars,
                   certVars, schemaVars, hookVars, callVars>>
    /\ UNCHANGED peer

\* lines 37-43: the branch
NewCheck ==
    /\ npc = "check"
    /\ npc' = IF BothExist THEN "load" ELSE "generate"
    /\ UNCHANGED <<capem, cakey, root_ca, root_ca_keypair, starts>>
    /\ UNCHANGED <<sinkVars, today, wcount, readerVars, proxyVars, connVars, listenerVars,
                   certVars, schemaVars, hookVars, callVars>>
    /\ UNCHANGED peer

\* load_ca, lines 92-113: both files are read, the key is parsed, and the
\* certificate is made again from the saved parameters and the loaded key;
\* a file that does not parse makes new return Err
LoadCa ==
    /\ npc = "load"
    /\ LET k == from_pem(cakey)
           params == from_ca_cert_pem(capem)
       IN IF k = PemError \/ params = PemError
          THEN /\ npc' = "failed"
               /\ UNCHANGED <<root_ca, root_ca_keypair>>
          ELSE /\ npc' = "up"
               /\ root_ca_keypair' = k
               /\ root_ca' = self_signed(params, k, starts)
    /\ UNCHANGED <<capem, cakey, starts>>
    /\ UNCHANGED <<sinkVars, today, wcount, readerVars, proxyVars, connVars, listenerVars,
                   certVars, schemaVars, hookVars, callVars>>
    /\ UNCHANGED peer

\* generate_root_ca, lines 66-85
GenerateRootCa ==
    /\ npc = "generate"
    /\ root_ca_keypair' = generate(starts)
    /\ root_ca' = self_signed([cn |-> "Local Logger CA"], generate(starts), starts)
    /\ npc' = "save_cert"
    /\ UNCHANGED <<capem, cakey, starts>>
    /\ UNCHANGED <<sinkVars, today, wcount, readerVars, proxyVars, connVars, listenerVars,
                   certVars, schemaVars, hookVars, callVars>>
    /\ UNCHANGED peer

\* save_ca, line 120: File::create(cert_path) makes the file or empties it
CreateCertFile ==
    /\ npc = "save_cert"
    /\ capem' = <<>>
    /\ npc' = "write_cert"
    /\ UNCHANGED <<cakey, root_ca, root_ca_keypair, starts>>
    /\ UNCHANGED <<sinkVars, today, wcount, readerVars, proxyVars, connVars, listenerVars,
                   certVars, schemaVars, hookVars, callVars>>
    /\ UNCHANGED peer

\* save_ca, line 122: cert_file.write_all(cert_pem.as_bytes())
WriteCertFile ==
    /\ npc = "write_cert"
    /\ capem' = cert_pem(root_ca)
    /\ npc' = "save_key"
    /\ UNCHANGED <<cakey, root_ca, root_ca_keypair, starts>>
    /\ UNCHANGED <<sinkVars, today, wcount, readerVars, proxyVars, connVars, listenerVars,
                   certVars, schemaVars, hookVars, callVars>>
    /\ UNCHANGED peer

\* save_ca, line 125: File::create(key_path)
CreateKeyFile ==
    /\ npc = "save_key"
    /\ cakey' = <<>>
    /\ npc' = "write_key"
    /\ UNCHANGED <<capem, root_ca, root_ca_keypair, starts>>
    /\ UNCHANGED <<sinkVars, today, wcount, readerVars, proxyVars, connVars, listenerVars,
                   certVars, schemaVars, hookVars, callVars>>
    /\ UNCHANGED peer

\* save_ca, lines 127-138: key_file.write_all(key_pem.as_bytes()), the
\* permissions, and new returns the manager
WriteKeyFile ==
    /\ npc = "write_key"
    /\ cakey' = serialize_pem(root_ca_keypair)
    /\ npc' = "up"
    /\ UNCHANGED <<capem, root_ca, root_ca_keypair, starts>>
    /\ UNCHANGED <<sinkVars, today, wcount, readerVars, proxyVars, connVars, listenerVars,
                   certVars, schemaVars, hookVars, callVars>>
    /\ UNCHANGED peer

\* the process ends (it exits, fails or is killed) wherever it stands; what
\* it held in memory is gone, the files stay as they are
ProcessStop ==
    /\ npc # "down"
    /\ npc' = "down"
    /\ root_ca' = NoCa
    /\ root_ca_keypair' = NoCa
    /\ UNCHANGED <<capem, cakey, starts>>
    /\ UNCHANGED <<sinkVars, today, wcount, readerVars, proxyVars, connVars, listenerVars,
                   certVars, schemaVars, hookVars, callVars>>
    /\ UNCHANGED peer

(***************************************************************************)
(* A second process that constructs CertificateManager on the same         *)
(* directory while the first does: the same code, with its own locals in   *)
(* the record peer; its key pair is one that no start of the first process *)
(* generates.                                                              *)
(***************************************************************************)
PeerDown == [pc |-> "down", root_ca |-> NoCa, root_ca_keypair |-> NoCa]
PeerFrame ==
    UNCHANGED <<npc, root_ca, root_ca_keypair, starts, sinkVars, today, wcount, readerVars, proxyVars, connVars, listenerVars, certVars, schemaVars, hookVars, callVars>>

\* new, lines 30-35: fs::create_dir_all(&cert_dir) and the two paths
PeerStart ==
    /\ peer.pc = "down"
    /\ peer' = [peer EXCEPT !.pc = "check"]
    /\ UNCHANGED <<capem, cakey>>
    /\ PeerFrame

\* new, lines 37-43: the branch on the two files
PeerCheck ==
    /\ peer.pc = "check"
    /\ peer' = [peer EXCEPT !.pc = IF BothExist THEN "load" ELSE "generate"]
    /\ UNCHANGED <<capem, cakey>>
    /\ PeerFrame

\* load_ca, lines 92-113
PeerLoadCa ==
    /\ peer.pc = "load"
    /\ LET k == from_pem(cakey)
           params == from_ca_cert_pem(capem)
       IN peer' = IF k = PemError \/ params = PemError
                  THEN [peer EXCEPT !.pc = "failed"]
                  ELSE [pc |-> "up", root_ca |-> self_signed(params, k, MaxStarts + 1), root_ca_keypair |-> k]
    /\ UNCHANGED <<capem, cakey>>
    /\ PeerFrame

\* generate_root_ca, lines 66-85
PeerGenerateRootCa ==
    /\ peer.pc = "generate"
    /\ peer' = [pc |-> "save_cert", root_ca |-> self_signed([cn |-> "Local Logger CA"], generate(MaxStarts + 1), MaxStarts + 1), root_ca_keypair |-> generate(MaxStarts + 1)]
    /\ UNCHANGED <<capem, cakey>>
    /\ PeerFrame

\* save_ca, line 120: File::create(cert_path)
PeerCreateCertFile ==
    /\ peer.pc = "save_cert"
    /\ capem' = <<>>
    /\ peer' = [peer EXCEPT !.pc = "write_cert"]
    /\ UNCHANGED cakey
    /\ PeerFrame

\* save_ca, line 122: cert_file.write_all(cert_pem.as_bytes())
PeerWriteCertFile ==
    /\ peer.pc = "write_cert"
    /\ capem' = cert_pem(peer.root_ca)
    /\ peer' = [peer EXCEPT !.pc = "save_key"]
    /\ UNCHANGED cakey
    /\ PeerFrame

\* save_ca, line 125: File::create(key_path)
PeerCreateKeyFile ==
    /\ peer.pc = "save_key"
    /\ cakey' = <<>>
    /\ peer' = [peer EXCEPT !.pc = "write_key"]
    /\ UNCHANGED capem
    /\ PeerFrame

\* save_ca, line 127: key_file.write_all(key_pem.as_bytes())
PeerWriteKeyFile ==
    /\ peer.pc = "write_key"
    /\ cakey' = serialize_pem(peer.root_ca_keypair)
    /\ peer' = [peer EXCEPT !.pc = "permissions"]
    /\ UNCHANGED capem
    /\ PeerFrame

\* save_ca, lines 130-135: fs::set_permissions(key_path, 0o600); save_ca and
\* then new return
PeerSetPermissions ==
    /\ peer.pc = "permissions"
    /\ peer' = [peer EXCEPT !.pc = "up"]
    /\ UNCHANGED <<capem, cakey>>
    /\ PeerFrame

(***************************************************************************)
(* CertificateManager::get_certificate: the cache of leaf certificates     *)
(* behind a tokio RwLock.  A leaf is named by the order of its minting.    *)
(***************************************************************************)
Callers == 1..NumCallers
Hostnames == {"a", "b"}
NoLeaf == 0
NoResult == [kind |-> "none"]

\* cache.get(hostname)
CacheGet(c, h) == c[h]

\* a cache that loses what is put in, and one that keeps its first entry
CacheInsertDropped(c, h, leaf) == c
CacheInsertKeepsFirst(c, h, leaf) == IF c[h] # NoLeaf THEN c ELSE [c EXCEPT ![h] = leaf]

\* cache.insert(hostname.to_string(), (cert_der.clone(), key_der.clone_key()))
CacheInsert(c, h, leaf) == [c EXCEPT ![h] = leaf]

\* a task calls get_certificate(hostname)
GetCertificate(k, h) ==
    /\ gpc[k] = "idle"
    /\ gpc' = [gpc EXCEPT ![k] = "check"]
    /\ ghost' = [ghost EXCEPT ![k] = h]
    /\ gres' = [gres EXCEPT ![k] = NoResult]
    /\ UNCHANGED <<cache, minted, gleaf, served>>
    /\ UNCHANGED <<sinkVars, today, wcount, readerVars, proxyVars, connVars, listenerVars,
                   caVars, schemaVars, hookVars, callVars>>

\* lines 143-149: under the read lock, an entry for the hostname is returned
\* as it is (a clone); with no entry the lock is dropped and the call goes on
CacheCheck(k) ==
    /\ gpc[k] = "check"
    /\ IF CacheGet(cache, ghost[k]) # NoLeaf
       THEN /\ gres' = [gres EXCEPT ![k] = [kind |-> "ok", hostname |-> ghost[k],
                                               leaf |-> CacheGet(cache, ghost[k])]]
            /\ served' = served \cup {ghost[k]}
            /\ gpc' = [gpc EXCEPT ![k] = "idle"]
       ELSE /\ gpc' = [gpc EXCEPT ![k] = "generate"]
            /\ UNCHANGED <<gres, served>>
    /\ UNCHANGED <<cache, minted, ghost, gleaf>>
    /\ UNCHANGED <<sinkVars, today, wcount, readerVars, proxyVars, connVars, listenerVars,
                   caVars, schemaVars, hookVars, callVars>>

\* line 154: generate_host_certificate(hostname)? makes a new key pair and a
\* leaf signed by the root, outside any lock
GenerateHostCertificate(k) ==
    /\ gpc[k] = "generate"
    /\ minted < MaxLeafs
    /\ minted' = minted + 1
    /\ gleaf' = [gleaf EXCEPT ![k] = minted + 1]
    /\ gpc' = [gpc EXCEPT ![k] = "insert"]
    /\ UNCHANGED <<cache, ghost, gres, served>>
    /\ UNCHANGED <<sinkVars, today, wcount, readerVars, proxyVars, connVars, listenerVars,
                   caVars, schemaVars, hookVars, callVars>>

\* line 154: generate_host_certificate fails (the hostname is no valid DNS
\* name for the SAN, or the signing fails) and `?` returns the error
GenerateFail(k) ==
    /\ gpc[k] = "generate"
    /\ gres' = [gres EXCEPT ![k] = [kind |-> "err", hostname |-> ghost[k], leaf |-> NoLeaf]]
    /\ gpc' = [gpc EXCEPT ![k] = "idle"]
    /\ UNCHANGED <<cache, minted, ghost, gleaf, served>>
    /\ UNCHANGED <<sinkVars, today, wcount, readerVars, proxyVars, connVars, listenerVars,
                   caVars, schemaVars, hookVars, callVars>>

\* lines 157-162: under the write lock the leaf goes into the cache under
\* the hostname, whatever is there; the call returns the leaf it generated
CacheStore(k) ==
    /\ gpc[k] = "insert"
    /\ cache' = CacheInsert(cache, ghost[k], gleaf[k])
    /\ gres' = [gres EXCEPT ![k] = [kind |-> "ok", hostname |-> ghost[k], leaf |-> gleaf[k]]]
    /\ served' = served \cup {ghost[k]}
    /\ gleaf' = [gleaf EXCEPT ![k] = NoLeaf]
    /\ gpc' = [gpc EXCEPT ![k] = "idle"]
    /\ UNCHANGED <<minted, ghost>>
    /\ UNCHANGED <<sinkVars, today, wcount, readerVars, proxyVars, connVars, listenerVars,
                   caVars, schemaVars, hookVars, callVars>>

(***************************************************************************)
(* Initial states.                                                         *)
(***************************************************************************)
SinkInit ==
    /\ lockHolder = [d \in Dates |-> NoJob]
    /\ jpc = [j \in Jobs |-> "idle"]
    /\ jentry = [j \in Jobs |-> NoEntry]
    /\ jpend = [j \in Jobs |-> <<>>]
    /\ today = 1
    /\ wcount = [w \in Writers |-> 0]

ReaderInit ==
    /\ rpc = "idle"
    /\ rn = 0
    /\ rdate = 1
    /\ roffset = 0
    /\ rbuffer = <<>>
    /\ rentries = <<>>
    /\ rresult = <<>>

NoIds == [request_id |-> 0, session_id |-> 0, correlation_id |-> 0]
NoResponse == [status |-> 0, enc |-> "none", body |-> <<>>]

ProxyInit ==
    /\ nextUuid = 1
    /\ fpc = [r \in Reqs |-> "idle"]
    /\ fids = [r \in Reqs |-> NoIds]
    /\ fup = [r \in Reqs |-> NoResponse]
    /\ fclient = [r \in Reqs |-> [kind |-> "pending"]]

NoTunnel == [up_sent |-> <<>>, up_recv |-> <<>>, down_sent |-> <<>>, down_recv |-> <<>>]

ConnInit ==
    /\ cpc = [c \in Conns |-> "idle"]
    /\ cauth = [c \in Conns |-> <<>>]
    /\ cmode = [c \in Conns |-> "none"]
    /\ cresp = [c \in Conns |-> [kind |-> "pending"]]
    /\ tun = [c \in Conns |-> NoTunnel]

CertInit ==
    /\ cache = [h \in Hostnames |-> NoLeaf]
    /\ minted = 0
    /\ gpc = [k \in Callers |-> "idle"]
    /\ ghost = [k \in Callers |-> "a"]
    /\ gleaf = [k \in Callers |-> NoLeaf]
    /\ gres = [k \in Callers |-> NoResult]
    /\ served = {}

\* an empty certificate directory and no process
CaInit ==
    /\ peer = PeerDown
    /\ capem = Absent
    /\ cakey = Absent
    /\ npc = "down"
    /\ root_ca = NoCa
    /\ root_ca_keypair = NoCa
    /\ starts = 0

SchemaIdle ==
    /\ headers = NotComputed
    /\ redacted = NotComputed
    /\ body_in = NotComputed
    /\ body_out = NotComputed
    /\ event = NotComputed
    /\ json = NotComputed
    /\ decoded = NotComputed

\* no hook process
HookIdle ==
    /\ stdin = NotComputed
    /\ hpc = "none"
    /\ hexit = NoExit

CallIdle ==
    /\ call = NotComputed
    /\ result = NotComputed

OtherInit ==
    /\ lpc = "listening"
    /\ accepted = 0
    /\ CertInit
    /\ CaInit
    /\ SchemaIdle
    /\ HookIdle
    /\ CallIdle

Init ==
    /\ SinkInit
    /\ ReaderInit
    /\ ProxyInit
    /\ ConnInit
    /\ OtherInit
    /\ target_hosts = {}
    /\ include_bodies = TRUE
    /\ files = [d \in Dates |-> <<>>]
    /\ okWrites = {}

(***************************************************************************)
(* Spec: writers calling write_sync concurrently.                          *)
(***************************************************************************)
Next ==
    \/ \E w \in Writers, size \in {1, MaxSize} : WriterCall(w, size)
    \/ \E j \in WriterJobs : Open(j)
    \/ \E j \in WriterJobs : OpenFail(j)
    \/ \E j \in WriterJobs : LockExclusive(j)
    \/ \E j \in WriterJobs : BufWrite(j)
    \/ \E j \in WriterJobs : Flush(j)
    \/ \E j \in WriterJobs : Close(j)

Spec == Init /\ [][Next]_vars

(***************************************************************************)
(* SpecWrite: threads that each call write_sync once, with the error       *)
(* returns of write_sync after the open; a thread that can take a step     *)
(* that is no failure eventually takes one.                                *)
(***************************************************************************)
\* the first call of a thread
FirstCall(w, size) == wcount[w] = 0 /\ WriterCall(w, size)

NextWrite ==
    \/ \E w \in Writers, size \in {1, MaxSize} : FirstCall(w, size)
    \/ \E j \in WriterJobs : Open(j)
    \/ \E j \in WriterJobs : OpenFail(j)
    \/ \E j \in WriterJobs : LockExclusive(j)
    \/ \E j \in WriterJobs : LockFail(j)
    \/ \E j \in WriterJobs : BufWrite(j)
    \/ \E j \in WriterJobs : Flush(j)
    \/ \E j \in WriterJobs : IoFail(j)
    \/ \E j \in WriterJobs : Close(j)

FairWrite ==
    \A j \in WriterJobs :
        /\ WF_vars(Open(j))
        /\ WF_vars(LockExclusive(j))
        /\ WF_vars(BufWrite(j))
        /\ WF_vars(Flush(j))
        /\ WF_vars(Close(j))

SpecWrite == Init /\ [][NextWrite]_vars /\ FairWrite

(***************************************************************************)
(* SpecTail: read_last_n_lines on a file that earlier writes left behind.  *)
(* The file holds the lines of up to MaxEvents events written one after    *)
(* the other, and possibly the first bytes of one more event, left by a    *)
(* writer that died before its flush.                                      *)
(***************************************************************************)
SizeSeqs == UNION {[1..n -> {1, MaxSize}] : n \in 0..MaxEvents}

RECURSIVE FileOfSizes(_, _)
FileOfSizes(ss, n) ==
    IF n = 0 THEN <<>>
    ELSE FileOfSizes(ss, n - 1) \o Serialize(Mcp(1, n, ss[n], 1)) \o <<NL>>

\* the proper, non-empty prefixes of the serialization of event number n
TruncatedEvents(n) ==
    UNION {{SubSeq(Serialize(Mcp(1, n, s, 1)), 1, k) : k \in 1..(s + 1)} : s \in {1, MaxSize}}

TailFiles ==
    {FileOfSizes(ss, Len(ss)) : ss \in SizeSeqs}
    \cup {FileOfSizes(ss, Len(ss)) \o t : ss \in SizeSeqs, t \in TruncatedEvents(MaxEvents + 1)}

InitTail ==
    /\ SinkInit
    /\ ReaderInit
    /\ ProxyInit
    /\ ConnInit
    /\ OtherInit
    /\ target_hosts = {}
    /\ include_bodies = TRUE
    /\ \E f \in TailFiles :
          /\ files = [d \in Dates |-> IF d = 1 THEN f ELSE <<>>]
          /\ okWrites = {e \in {Parse(l) : l \in {LinesOf(f)[i] : i \in 1..Len(LinesOf(f))}} :
                            e # ParseFail}

NextTail ==
    \/ \E n \in 0..MaxN : ReadStart(1, n)
    \/ ReadChunk
    \/ ReadReturn

SpecTail == InitTail /\ [][NextTail]_vars

(***************************************************************************)
(* SpecProxy: requests going through forward_request concurrently, each    *)
(* in its own task, upstream answering each, while the date may change.    *)
(***************************************************************************)
InitProxy ==
    /\ SinkInit
    /\ ReaderInit
    /\ ProxyInit
    /\ ConnInit
    /\ OtherInit
    /\ target_hosts = {}
    /\ include_bodies \in BOOLEAN
    /\ files = [d \in Dates |-> <<>>]
    /\ okWrites = {}

NextProxy ==
    \/ \E r \in Reqs : FwdStart(r)
    \/ \E r \in Reqs : FwdUpstreamOk(r, PlainResponse)
    \/ \E r \in Reqs : FwdRelay(r)
    \/ \E j \in ProxyJobs : WriteSync(j)
    \/ Tick

SpecProxy == InitProxy /\ [][NextProxy]_vars

(***************************************************************************)
(* SpecRelay: one request through forward_request with every outcome: the  *)
(* request body, the upstream exchange or the response body may fail,      *)
(* upstream answers with any of UpstreamResponses, a write to the log may  *)
(* fail.                                                                   *)
(***************************************************************************)
RelayReqs == {1}

NextRelay ==
    \/ \E r \in RelayReqs : FwdStart(r)
    \/ \E r \in RelayReqs : FwdBodyFail(r)
    \/ \E r \in RelayReqs, resp \in UpstreamResponses : FwdUpstreamOk(r, resp)
    \/ \E r \in RelayReqs : FwdUpstreamFail(r)
    \/ \E r \in RelayReqs : FwdUpstreamFailReturn(r)
    \/ \E r \in RelayReqs : FwdResponseBodyFail(r)
    \/ \E r \in RelayReqs : FwdRelay(r)
    \/ \E j \in ProxyJobs : WriteSync(j)
    \/ \E j \in ProxyJobs : OpenFail(j)
    \/ Tick

SpecRelay == InitProxy /\ [][NextRelay]_vars

(***************************************************************************)
(* SpecCancel: requests whose task may be dropped at any await, with       *)
(* write_sync taken step by step inside the blocking jobs.                 *)
(***************************************************************************)
\* two requests, enough for the jobs of one to meet the jobs of the other at
\* the lock of the daily file
CancelReqs == {1, 2}
CancelJobs == {<<k, r>> : k \in {"req", "resp"}, r \in CancelReqs}

NextCancel ==
    \/ \E r \in CancelReqs : FwdStart(r)
    \/ \E r \in CancelReqs : FwdUpstreamOk(r, LargeResponse)
    \/ \E r \in CancelReqs : FwdRelay(r)
    \/ \E r \in CancelReqs : Cancel(r)
    \/ \E j \in CancelJobs : Open(j)
    \/ \E j \in CancelJobs : OpenFail(j)
    \/ \E j \in CancelJobs : LockExclusive(j)
    \/ \E j \in CancelJobs : BufWrite(j)
    \/ \E j \in CancelJobs : Flush(j)
    \/ \E j \in CancelJobs : Close(j)

SpecCancel == InitProxy /\ [][NextCancel]_vars

(***************************************************************************)
(* SpecCert: concurrent callers of get_certificate on one manager.         *)
(***************************************************************************)
NextCert ==
    \/ \E k \in Callers, h \in Hostnames : GetCertificate(k, h)
    \/ \E k \in Callers : CacheCheck(k)
    \/ \E k \in Callers : GenerateHostCertificate(k)
    \/ \E k \in Callers : GenerateFail(k)
    \/ \E k \in Callers : CacheStore(k)

SpecCert == Init /\ [][NextCert]_vars

(***************************************************************************)
(* SpecCa: the proxy process started again and again on one certificate    *)
(* directory, empty at first.                                              *)
(***************************************************************************)
NextCa ==
    \/ NewStart
    \/ NewCheck
    \/ LoadCa
    \/ GenerateRootCa
    \/ CreateCertFile
    \/ WriteCertFile
    \/ CreateKeyFile
    \/ WriteKeyFile
    \/ ProcessStop

SpecCa == Init /\ [][NextCa]_vars

(***************************************************************************)
(* SpecSchema: the functions of schema.rs, each applied to one input drawn *)
(* from a bounded set.                                                     *)
(***************************************************************************)
SchemaInputs ==
    \/ headers \in HeaderMaps /\ body_in = NotComputed /\ event = NotComputed
    \/ headers = NotComputed /\ body_in \in BodyInputs /\ event = NotComputed
    \/ headers = NotComputed /\ body_in = NotComputed /\ event \in EventInputs

InitSchema ==
    /\ SinkInit
    /\ ReaderInit
    /\ ProxyInit
    /\ ConnInit
    /\ CertInit
    /\ CaInit
    /\ HookIdle
    /\ CallIdle
    /\ lpc = "listening"
    /\ accepted = 0
    /\ target_hosts = {}
    /\ include_bodies = TRUE
    /\ files = [d \in Dates |-> <<>>]
    /\ okWrites = {}
    /\ SchemaInputs
    /\ redacted = NotComputed
    /\ body_out = NotComputed
    /\ json = NotComputed
    /\ decoded = NotComputed

NextSchema ==
    \/ Redact
    \/ FromBytes
    \/ SerializeEntry
    \/ DeserializeEntry

SpecSchema == InitSchema /\ [][NextSchema]_vars

(***************************************************************************)
(* SpecHook: one hook process on an empty logs directory, with any input.  *)
(***************************************************************************)
InitHook ==
    /\ SinkInit
    /\ ReaderInit
    /\ ProxyInit
    /\ ConnInit
    /\ CertInit
    /\ CaInit
    /\ SchemaIdle
    /\ CallIdle
    /\ lpc = "listening"
    /\ accepted = 0
    /\ target_hosts = {}
    /\ include_bodies = TRUE
    /\ files = [d \in Dates |-> <<>>]
    /\ okWrites = {}
    /\ stdin \in HookStdins
    /\ hpc = "start"
    /\ hexit = NoExit

NextHook ==
    \/ HookRead
    \/ WriteSync(HookJob)
    \/ OpenFail(HookJob)
    \/ HookExit
    \/ Tick

SpecHook == InitHook /\ [][NextHook]_vars

(***************************************************************************)
(* SpecDates: one call of read_logs or clear_log with any date argument.   *)
(***************************************************************************)
InitCall ==
    /\ SinkInit
    /\ ReaderInit
    /\ ProxyInit
    /\ ConnInit
    /\ CertInit
    /\ CaInit
    /\ SchemaIdle
    /\ HookIdle
    /\ lpc = "listening"
    /\ accepted = 0
    /\ target_hosts = {}
    /\ include_bodies = TRUE
    /\ files = [d \in Dates |-> <<>>]
    /\ okWrites = {}

InitDates == InitCall /\ call \in DateCalls /\ result = NotComputed

NextDates ==
    \/ ReadLogs
    \/ ClearLog

SpecDates == InitDates /\ [][NextDates]_vars

(***************************************************************************)
(* SpecCurl: two requests with the same header names go through            *)
(* log_request.                                                            *)
(***************************************************************************)
InitCurl ==
    /\ InitCall
    /\ \E b \in CurlBodies, h1 \in CurlHeaderMaps :
          \E h2 \in [DOMAIN h1 -> CurlHeaderValues] :
              call = [fn |-> "log_request", body |-> b, headers |-> <<h1, h2>>]
    /\ result = <<NotComputed, NotComputed>>

NextCurl == \E i \in {1, 2} : LogRequest(i)

SpecCurl == InitCurl /\ [][NextCurl]_vars

(***************************************************************************)
(* SpecVersion: extract_api_version on any path and header map.            *)
(***************************************************************************)
InitVersion == InitCall /\ call \in VersionCalls /\ result = NotComputed

NextVersion == ExtractApiVersion

SpecVersion == InitVersion /\ [][NextVersion]_vars

(***************************************************************************)
(* SpecClear: threads that each call write_sync once, none of which fails, *)
(* while clear_log is called on the daily files.                           *)
(***************************************************************************)
NextClear ==
    \/ \E w \in Writers, size \in {1, MaxSize} : FirstCall(w, size)
    \/ \E j \in WriterJobs : Open(j)
    \/ \E j \in WriterJobs : LockExclusive(j)
    \/ \E j \in WriterJobs : BufWrite(j)
    \/ \E j \in WriterJobs : Flush(j)
    \/ \E j \in WriterJobs : Close(j)
    \/ \E d \in Dates : ClearLogFile(d)

SpecClear == Init /\ [][NextClear]_vars

(***************************************************************************)
(* SpecRead: one read_last_n_lines call on the file of day 1 while threads *)
(* that each call write_sync once append to it; no call fails.             *)
(***************************************************************************)
\* the only call of the reader
ReadOnce(n) == rpc = "idle" /\ ReadStart(1, n)

NextRead ==
    \/ \E w \in Writers, size \in {1, MaxSize} : FirstCall(w, size)
    \/ \E j \in WriterJobs : Open(j)
    \/ \E j \in WriterJobs : LockExclusive(j)
    \/ \E j \in WriterJobs : BufWrite(j)
    \/ \E j \in WriterJobs : Flush(j)
    \/ \E j \in WriterJobs : Close(j)
    \/ \E n \in {1, MaxN} : ReadOnce(n)
    \/ ReadChunk
    \/ ReadReturn

SpecRead == Init /\ [][NextRead]_vars

(***************************************************************************)
(* SpecCrash: threads that each call write_sync once, where a call may     *)
(* fail or die after it took the lock, and one read_last_n_lines call on   *)
(* the file of day 1 once every write_sync call is over.                   *)
(***************************************************************************)
\* the read starts when no write is under way and none is to come
ReadAfterWrites(n) ==
    /\ \A j \in WriterJobs : jpc[j] \in {"ok", "err"}
    /\ ReadOnce(n)

NextCrash ==
    \/ \E w \in Writers, size \in {1, MaxSize} : FirstCall(w, size)
    \/ \E j \in WriterJobs : Open(j)
    \/ \E j \in WriterJobs : LockExclusive(j)
    \/ \E j \in WriterJobs : BufWrite(j)
    \/ \E j \in WriterJobs : Flush(j)
    \/ \E j \in WriterJobs : IoFail(j)
    \/ \E j \in WriterJobs : Close(j)
    \/ \E n \in {1, MaxN} : ReadAfterWrites(n)
    \/ ReadChunk
    \/ ReadReturn

SpecCrash == Init /\ [][NextCrash]_vars

(***************************************************************************)
(* SpecCaPair: two processes construct CertificateManager on one empty     *)
(* directory, each once, their steps interleaved in any order.             *)
(***************************************************************************)
NextCaPair ==
    \/ NewStart
    \/ NewCheck
    \/ LoadCa
    \/ GenerateRootCa
    \/ CreateCertFile
    \/ WriteCertFile
    \/ CreateKeyFile
    \/ WriteKeyFile
    \/ PeerStart
    \/ PeerCheck
    \/ PeerLoadCa
    \/ PeerGenerateRootCa
    \/ PeerCreateCertFile
    \/ PeerWriteCertFile
    \/ PeerCreateKeyFile
    \/ PeerWriteKeyFile
    \/ PeerSetPermissions

SpecCaPair == Init /\ [][NextCaPair]_vars

(***************************************************************************)
(* SpecPlain: one plain HTTP request through proxy_request, under any      *)
(* configured target_hosts, with bodies recorded or not.                   *)
(***************************************************************************)
InitPlain ==
    /\ SinkInit
    /\ ReaderInit
    /\ ProxyInit
    /\ ConnInit
    /\ OtherInit
    /\ target_hosts \in TargetHostLists
    /\ include_bodies \in BOOLEAN
    /\ files = [d \in Dates |-> <<>>]
    /\ okWrites = {}

NextPlain ==
    \/ \E r \in RelayReqs : ProxyRequestPlain(r)
    \/ \E r \in RelayReqs : HandleHttpProxy(r)
    \/ \E r \in RelayReqs, resp \in UpstreamResponses : FwdUpstreamOk(r, resp)
    \/ \E r \in RelayReqs : FwdRelay(r)
    \/ \E j \in ProxyJobs : WriteSync(j)
    \/ Tick

SpecPlain == InitPlain /\ [][NextPlain]_vars

(***************************************************************************)
(* SpecConnect: connections that send CONNECT, under any configured        *)
(* target_hosts; an intercepted connection carries one inner request.      *)
(***************************************************************************)
InitConnect ==
    /\ SinkInit
    /\ ReaderInit
    /\ ProxyInit
    /\ ConnInit
    /\ OtherInit
    /\ target_hosts \in TargetHostLists
    /\ include_bodies = TRUE
    /\ files = [d \in Dates |-> <<>>]
    /\ okWrites = {}

NextConnect ==
    \/ \E c \in Conns : Accept(c)
    \/ \E c \in Conns, a \in Authorities : ProxyRequest(c, a)
    \/ \E c \in Conns : HandleConnect(c)
    \/ \E c \in Conns : HandleConnectNoAuthority(c)
    \/ \E c \in Conns : ConnectRejected(c)
    \/ \E c \in Conns : ConnectDecide(c)
    \/ \E c \in Conns : UpgradeOk(c)
    \/ \E c \in Conns : UpgradeFail(c)
    \/ \E c \in Conns : TunnelConnect(c)
    \/ \E c \in Conns : TunnelFail(c)
    \/ \E c \in Conns, byte \in TunnelBytes : ClientSend(c, byte)
    \/ \E c \in Conns, byte \in TunnelBytes : ServerSend(c, byte)
    \/ \E c \in Conns : CopyClientToServer(c)
    \/ \E c \in Conns : CopyServerToClient(c)
    \/ \E c \in Conns : TunnelEof(c)
    \/ \E c \in Conns : MitmCertificate(c)
    \/ \E c \in Conns : MitmTlsAccept(c)
    \/ \E c \in Conns : MitmFail(c)
    \/ \E c \in Conns : HandleHttpsRequest(c)
    \/ \E c \in Conns : HttpsForward(c)
    \/ \E c \in Conns : FwdUpstreamOk(c, PlainResponse)
    \/ \E c \in Conns : FwdUpstreamFail(c)
    \/ \E c \in Conns : FwdUpstreamFailReturn(c)
    \/ \E c \in Conns : FwdRelay(c)
    \/ \E c \in Conns : MitmServed(c)
    \/ \E c \in Conns : ConnErrorLogged(c)
    \/ \E j \in ProxyJobs \cup ConnJobs : WriteSync(j)

SpecConnect == InitConnect /\ [][NextConnect]_vars

(***************************************************************************)
(* SpecMitm: one connection whose CONNECT is intercepted, from the accept  *)
(* to the end of its task, with one inner request; the upgrade, the        *)
(* certificate, the handshake, the upstream and the sink may each fail.    *)
(***************************************************************************)
MitmConns == {1}
MitmJobs == {j \in ProxyJobs \cup ConnJobs : j[2] \in MitmConns}

NextMitm ==
    \/ \E c \in MitmConns : Accept(c)
    \/ \E c \in MitmConns : ProxyRequest(c, <<"a", ":", "4">>)
    \/ \E c \in MitmConns : HandleConnect(c)
    \/ \E c \in MitmConns : ConnectDecide(c)
    \/ \E c \in MitmConns : UpgradeOk(c)
    \/ \E c \in MitmConns : UpgradeFail(c)
    \/ \E c \in MitmConns : MitmCertificate(c)
    \/ \E c \in MitmConns : MitmTlsAccept(c)
    \/ \E c \in MitmConns : MitmFail(c)
    \/ \E c \in MitmConns : HandleHttpsRequest(c)
    \/ \E c \in MitmConns : HttpsForward(c)
    \/ \E c \in MitmConns : FwdUpstreamOk(c, PlainResponse)
    \/ \E c \in MitmConns : FwdUpstreamFail(c)
    \/ \E c \in MitmConns : FwdUpstreamFailReturn(c)
    \/ \E c \in MitmConns : FwdRelay(c)
    \/ \E c \in MitmConns : MitmServed(c)
    \/ \E c \in MitmConns : MitmClientClose(c)
    \/ \E c \in MitmConns : ConnErrorLogged(c)
    \/ \E j \in MitmJobs : WriteSync(j)
    \/ \E j \in MitmJobs : OpenFail(j)

SpecMitm == InitConnect /\ [][NextMitm]_vars

(***************************************************************************)
(* SpecListener: the accept loop of ProxyServer::run and the tasks it      *)
(* spawns, every connection intercepted (target_hosts empty or ["a"]),     *)
(* each task free to fail at the certificate, at the TLS accept or while   *)
(* serving, or to panic.  A slot of Conns is taken again once its task is  *)
(* gone.                                                                   *)
(***************************************************************************)
InitListener ==
    /\ SinkInit
    /\ ReaderInit
    /\ ProxyInit
    /\ ConnInit
    /\ OtherInit
    /\ target_hosts \in {{}, {<<"a">>}}
    /\ include_bodies = TRUE
    /\ files = [d \in Dates |-> <<>>]
    /\ okWrites = {}

NextListener ==
    \/ \E c \in Conns : Accept(c)
    \/ AcceptFail
    \/ \E c \in Conns : ProxyRequest(c, <<"a", ":", "4">>)
    \/ \E c \in Conns : HandleConnect(c)
    \/ \E c \in Conns : ConnectDecide(c)
    \/ \E c \in Conns : UpgradeOk(c)
    \/ \E c \in Conns : MitmCertificate(c)
    \/ \E c \in Conns : MitmTlsAccept(c)
    \/ \E c \in Conns : MitmFail(c)
    \/ \E c \in Conns : MitmClientClose(c)
    \/ \E c \in Conns : ConnPanic(c)
    \/ \E c \in Conns : ConnErrorLogged(c)
    \/ \E c \in Conns : TaskGone(c)
    \/ \E j \in ConnJobs : WriteSync(j)

SpecListener == InitListener /\ [][NextListener]_vars

(***************************************************************************)
(* The claims.                                                             *)
(***************************************************************************)
LineCount(d) == Len(LinesOf(files[d]))
LineEntries(d) == {Parse(LinesOf(files[d])[i]) : i \in 1..LineCount(d)}
\* the events of a file as a full forward scan finds them
FullScan(d) == ParsedOk(LinesOf(files[d]))

C2_NoWriteLost ==
    \A d \in Dates :
        LET committed ==
                {e \in okWrites \cup {jentry[j] : j \in {k \in Jobs : jpc[k] = "flushed"}} :
                    e.date = d}
        IN /\ LineCount(d) = Cardinality(committed)
           /\ LineEntries(d) = committed

\* K = NumWriters writers have each completed M = 2 writes to the same file,
\* which holds K * M lines
C2_Witness ==
    /\ \A w \in Writers : wcount[w] = 2 /\ jpc[<<"w", w>>] = "ok"
    /\ Cardinality(okWrites) = NumWriters * 2
    /\ LineCount(1) = NumWriters * 2

\* the file read is a file of well-formed events only
WellFormedFile(d) == TailOf(files[d]) = <<>> /\ ParseFail \notin LineEntries(d)

\* C3: on a file of N well-formed events, read_last_n_lines(path, k) returns
\* the last min(N, k) events of the file in file order.
C3_TailReturnsLastN ==
    (rpc = "done" /\ WellFormedFile(rdate)) => rresult = LastN(FullScan(rdate), rn)

\* C4: on a file of N events followed by a truncated event without newline,
\* read_last_n_lines(path, k) with k >= N returns exactly the N events.
C4_PartialTailTolerated ==
    (/\ rpc = "done"
     /\ TailOf(files[rdate]) # <<>>
     /\ ParseFail \notin LineEntries(rdate)
     /\ rn >= LineCount(rdate))
        => rresult = FullScan(rdate)

\* the events of the lines of all daily files
LoggedEvents == UNION {LineEntries(d) : d \in Dates}
\* the events of request r as log_request and log_response built them
RequestEvent(r) == jentry[<<"req", r>>]
ResponseEvent(r) == jentry[<<"resp", r>>]

\* C5: for every request of forward_request, the write of its ProxyRequest
\* event has ended before the write of its ProxyResponse event is called,
\* and in a daily file that holds both, the ProxyRequest line stands before
\* the ProxyResponse line, whatever the other requests do meanwhile.
C5_RequestBeforeResponse ==
    /\ \A r \in Reqs :
          jpc[<<"resp", r>>] # "idle" => jpc[<<"req", r>>] \in {"ok", "err"}
    /\ \A d \in Dates :
          LET scan == FullScan(d)
          IN \A r \in Reqs : \A i, k \in 1..Len(scan) :
                (scan[i] = RequestEvent(r) /\ scan[k] = ResponseEvent(r)) => i < k

\* the two lines of one request stand in one file with a line of another
\* request between them
C5_Witness ==
    \E d \in Dates : \E r1, r2 \in Reqs : \E i, j, k \in 1..LineCount(d) :
        /\ r1 # r2
        /\ i < j /\ j < k
        /\ FullScan(d)[i] = RequestEvent(r1)
        /\ FullScan(d)[j] \in {RequestEvent(r2), ResponseEvent(r2)}
        /\ FullScan(d)[k] = ResponseEvent(r1)

\* C6: the ProxyResponse event of a request carries the request_id and the
\* correlation_id of that request's ProxyRequest event; two requests never
\* share a request_id or a correlation_id, so the events in the log with one
\* correlation_id are the events of one request.
C6_SameIdsPerRequest ==
    /\ \A r \in Reqs :
          ResponseEvent(r) # NoEntry =>
              /\ RequestEvent(r) # NoEntry
              /\ ResponseEvent(r).request_id = RequestEvent(r).id
              /\ ResponseEvent(r).correlation_id = RequestEvent(r).correlation_id
    /\ \A r1, r2 \in Reqs :
          (r1 # r2 /\ RequestEvent(r1) # NoEntry /\ RequestEvent(r2) # NoEntry) =>
              /\ RequestEvent(r1).id # RequestEvent(r2).id
              /\ RequestEvent(r1).correlation_id # RequestEvent(r2).correlation_id
    /\ LET logged == LoggedEvents
       IN \A e \in logged :
             e.type \in {"ProxyRequest", "ProxyResponse"} =>
                 \E r \in Reqs :
                     /\ e \in {RequestEvent(r), ResponseEvent(r)}
                     /\ \A o \in logged :
                           o.correlation_id = e.correlation_id =>
                               o \in {RequestEvent(r), ResponseEvent(r)}

\* the log holds the request and the response events of two requests
C6_Witness ==
    \E r1, r2 \in Reqs :
        /\ r1 # r2
        /\ {RequestEvent(r1), ResponseEvent(r1), RequestEvent(r2), ResponseEvent(r2)}
               \subseteq LoggedEvents

\* C7: when the upstream exchange of a forwarded request has failed, the
\* client has received a 502 response and a ProxyResponse event with status
\* 502 and the ids of the request is in the log.
C7_UpstreamFailureAnswered ==
    \A r \in Reqs :
        fpc[r] \in {"failed_upstream", "failed_resp_body"} =>
            /\ fclient[r].kind = "response"
            /\ fclient[r].status = 502
            /\ \E e \in LoggedEvents :
                  /\ e.type = "ProxyResponse"
                  /\ e.status = 502
                  /\ e.request_id = fids[r].request_id
                  /\ e.correlation_id = fids[r].correlation_id

\* the authority with its ":port" removed: the text before the last colon
\* when only digits follow that colon
LastColon(str) ==
    CHOOSE i \in 1..Len(str) : str[i] = ":" /\ \A j \in (i + 1)..Len(str) : str[j] # ":"
AuthorityMinusPort(authority) ==
    IF /\ \E i \in 1..Len(authority) : authority[i] = ":"
       /\ LastColon(authority) < Len(authority)
       /\ \A j \in (LastColon(authority) + 1)..Len(authority) : authority[j] \in Digits
    THEN SubSeq(authority, 1, LastColon(authority) - 1)
    ELSE authority

\* C8: a CONNECT is intercepted (MITM) exactly when target_hosts is empty or
\* one of its entries is a substring of the hostname, the authority without
\* its ":port"; otherwise it becomes a passthrough tunnel.
C8_InterceptIffHostMatches ==
    \A c \in Conns :
        cmode[c] # "none" =>
            /\ cmode[c] \in {"mitm", "passthrough"}
            /\ cmode[c] = "mitm" <=>
                  \/ target_hosts = {}
                  \/ \E h \in target_hosts : Contains(AuthorityMinusPort(cauth[c]), h)

\* C9: for a CONNECT that became a passthrough tunnel, the bytes received at
\* each end are the bytes the other end sent, and the log holds no event
\* written for that connection.
C9_PassthroughLeavesNoEvent ==
    \A c \in Conns :
        cmode[c] = "passthrough" =>
            /\ IsPrefix(tun[c].up_recv, tun[c].up_sent)
            /\ IsPrefix(tun[c].down_recv, tun[c].down_sent)
            /\ \A e \in LoggedEvents :
                  ~(e.type = "ProxyDebug" /\ e.about = <<"conn", c>>)

\* C10: the response forward_request hands to the client has the status,
\* the Content-Encoding and the body bytes received from upstream, whatever
\* BodyData the log holds for it.
C10_RelayedUnchanged ==
    \A r \in Reqs :
        fpc[r] = "done" =>
            /\ fclient[r].kind = "response"
            /\ fclient[r].status = fup[r].status
            /\ fclient[r].enc = fup[r].enc
            /\ fclient[r].body = fup[r].body

\* a gzip response was relayed while the log holds its inflated text, and
\* the logged bytes are not the bytes relayed
C10_Witness ==
    \E r \in Reqs :
        /\ fpc[r] = "done"
        /\ fup[r].enc = "gzip"
        /\ ResponseEvent(r) \in LoggedEvents
        /\ ResponseEvent(r).body.content.type = "Text"
        /\ ResponseEvent(r).body.content.data # fclient[r].body

\* C11: a write of a ProxyRequest or ProxyResponse event that failed never
\* changes what the forward does: with the request event's write failed the
\* request can still go upstream, with the response event's write failed the
\* response can still be relayed, a forward that ended with a failed write
\* relayed the upstream response, and a client connection is closed without
\* response only after the exchange itself failed.
C11_SinkFailureSwallowed ==
    \A r \in Reqs :
        LET reqFailed == jpc[<<"req", r>>] = "err"
            respFailed == jpc[<<"resp", r>>] = "err"
        IN /\ (reqFailed /\ fpc[r] = "req_logging") =>
                 \A resp \in UpstreamResponses : ENABLED FwdUpstreamOk(r, resp)
           /\ (respFailed /\ fpc[r] = "resp_logging") => ENABLED FwdRelay(r)
           /\ ((reqFailed \/ respFailed) /\ fpc[r] = "done") =>
                 fclient[r] = [kind |-> "response", status |-> fup[r].status,
                               enc |-> fup[r].enc, body |-> fup[r].body]
           /\ fclient[r].kind = "closed" =>
                 fpc[r] \in {"failed_body", "failed_upstream", "failed_resp_body"}

\* both writes of a request failed and its response reached the client
C11_Witness ==
    \E r \in Reqs :
        /\ jpc[<<"req", r>>] = "err"
        /\ jpc[<<"resp", r>>] = "err"
        /\ fpc[r] = "done"
        /\ fclient[r].kind = "response"

\* C12: once the write of a request's ProxyRequest or ProxyResponse event has
\* failed and the forward has gone on, a debug event reporting the failed
\* write has been handed to the sink.
C12_SinkFailureReported ==
    \A r \in Reqs :
        (\/ jpc[<<"req", r>>] = "err" /\ fpc[r] # "req_logging"
         \/ jpc[<<"resp", r>>] = "err" /\ fpc[r] # "resp_logging") =>
            \E j \in Jobs :
                /\ jentry[j].type = "ProxyDebug"
                /\ jentry[j].about = <<"req", r>>
                /\ jentry[j].message = "Failed to write log entry"

\* C13: no step of a connection task stops the accept loop, also the step
\* that ends the task in failure, and as long as the loop runs it can accept
\* a connection on every free slot, whatever state the other tasks ended in.
C13_ListenerSurvivesTasks ==
    /\ [][(\E c \in Conns : cpc'[c] # cpc[c]) => lpc' = lpc]_vars
    /\ [](\A c \in Conns :
            (lpc = "listening" /\ accepted < MaxAccepts /\ cpc[c] = "idle") =>
                ENABLED Accept(c))

\* a connection is being served after an earlier one failed and left its
\* ERROR event in the log
C13_Witness ==
    /\ lpc = "listening"
    /\ accepted >= 2
    /\ \E e \in LoggedEvents : e.type = "ProxyDebug" /\ e.level = "ERROR"
    /\ \E c \in Conns : cpc[c] = "mitm_serving"

C15_GetOrMint ==
    /\ [][\A k \in Callers :
            /\ (gpc[k] = "check" /\ gpc'[k] # "check" /\ cache[ghost[k]] # NoLeaf) =>
                  /\ gres'[k] = [kind |-> "ok", hostname |-> ghost[k], leaf |-> cache[ghost[k]]]
                  /\ minted' = minted
                  /\ cache' = cache
            /\ (gpc[k] = "check" /\ gpc'[k] # "check" /\ cache[ghost[k]] = NoLeaf) =>
                  gpc'[k] = "generate" /\ gres'[k].kind = "none"
            /\ (gpc[k] = "generate" /\ gpc'[k] = "insert") =>
                  minted' = minted + 1 /\ gleaf'[k] = minted'
            /\ (gpc[k] = "insert" /\ gpc'[k] # "insert") =>
                  /\ cache'[ghost[k]] = gleaf[k]
                  /\ \A h \in Hostnames \ {ghost[k]} : cache'[h] = cache[h]
                  /\ gres'[k] = [kind |-> "ok", hostname |-> ghost[k], leaf |-> gleaf[k]]]_vars
    /\ [][\A h \in Hostnames : cache[h] # NoLeaf => cache'[h] # NoLeaf]_vars
    /\ [](\A h \in served : cache[h] # NoLeaf)
    /\ [](\A k \in Callers : gres[k].kind = "ok" => cache[gres[k].hostname] # NoLeaf)

\* two callers missed the cache for the same hostname and both minted: each
\* got its own leaf, the cache holds the one inserted last, and the other
\* hostname is cached as well
C15_Witness ==
    /\ minted = MaxLeafs
    /\ \A h \in Hostnames : cache[h] # NoLeaf
    /\ \E k1, k2 \in Callers :
          /\ k1 # k2
          /\ gres[k1].kind = "ok" /\ gres[k2].kind = "ok"
          /\ gres[k1].hostname = gres[k2].hostname
          /\ gres[k1].leaf # gres[k2].leaf

\* C16: CertificateManager::new on an empty directory creates ca.pem and
\* ca.key; where both files exist it takes the load branch and writes
\* neither file; a manager that is up holds the key whose PEM is the bytes
\* of ca.key, and once a key was saved whole its file never changes again,
\* however often the process is started.
C16_CaStableAcrossRestarts ==
    /\ [](npc = "up" =>
            /\ capem # Absent /\ cakey # Absent
            /\ serialize_pem(root_ca_keypair) = cakey)
    /\ [][(npc = "check" /\ npc' # "down") =>
            (IF capem # Absent /\ cakey # Absent THEN npc' = "load" ELSE npc' = "generate")]_vars
    /\ [][(npc \in {"down", "check", "load", "up", "failed"}) =>
            (capem' = capem /\ cakey' = cakey)]_vars
    /\ [][(capem # Absent /\ from_pem(cakey) # PemError) => (cakey' = cakey)]_vars

\* the last of several starts found the files of the first, loaded them, and
\* holds the key of the first start under a certificate it signed anew
C16_Witness ==
    /\ starts = MaxStarts
    /\ npc = "up"
    /\ root_ca_keypair = generate(1)
    /\ root_ca.signed_at = MaxStarts
    /\ cakey = serialize_pem(generate(1))

\* the header names of HeaderNames whose lowercase form is a sensitive name
SensitiveInputNames ==
    {"Authorization", "authorization", "AUTHORIZATION", "Cookie", "X-API-Key",
     "Proxy-Authorization"}
AuthorizationInputNames == {"Authorization", "authorization", "AUTHORIZATION"}

\* C17: redact_sensitive_headers returns a map with exactly the keys of its
\* input, spelled as given; the value of a key whose lowercase form is a
\* sensitive name becomes "[REDACTED]", or "[REDACTED:<scheme>]" when the key
\* is authorization and the value has a space, the scheme being what stands
\* before the first space; every other value is unchanged.
C17_RedactionKeepsKeysHidesValues ==
    redacted # NotComputed =>
        /\ DOMAIN redacted = DOMAIN headers
        /\ \A key \in DOMAIN headers :
              LET v == headers[key]
                  spaces == {i \in 1..Len(v) : v[i] = " "}
              IN IF key \in SensitiveInputNames
                 THEN IF key \in AuthorizationInputNames /\ spaces # {}
                      THEN \E i \in spaces :
                              /\ \A j \in spaces : i <= j
                              /\ redacted[key] = <<"[REDACTED:">> \o SubSeq(v, 1, i - 1) \o <<"]">>
                      ELSE redacted[key] = <<"[REDACTED]">>
                 ELSE redacted[key] = v

\* a map with an Authorization header in capitals carrying a scheme and a
\* token, next to a header that is not sensitive, went through the function
C17_Witness ==
    /\ redacted # NotComputed
    /\ "AUTHORIZATION" \in DOMAIN headers
    /\ headers["AUTHORIZATION"] = <<"Bearer", " ", "t">>
    /\ redacted["AUTHORIZATION"] = <<"[REDACTED:", "Bearer", "]">>
    /\ "Content-Type" \in DOMAIN headers
    /\ redacted["Content-Type"] = headers["Content-Type"]

\* C18: BodyData::from_bytes gives a result for every input, and picks the
\* content in this order: the bytes are gzip-decoded when the encoding
\* mentions gzip, and the result is DecompressionFailed if that fails; else
\* Empty if the effective bytes are empty; else Truncated if they are more
\* than max_size; else Text if they are valid UTF-8; else Binary.
C18_VariantOrder ==
    body_out # NotComputed =>
        LET b == body_in.bytes
            mentions == body_in.content_encoding \in {"gzip", "x-gzip"}
            decodes == b # <<>> /\ b[1] = "gz"
            effective == IF mentions /\ decodes THEN SubSeq(b, 2, Len(b)) ELSE b
            expected ==
                IF mentions /\ ~decodes THEN "DecompressionFailed"
                ELSE IF Len(effective) = 0 THEN "Empty"
                ELSE IF Len(effective) > body_in.max_size THEN "Truncated"
                ELSE IF \A i \in 1..Len(effective) : effective[i] = "a" THEN "Text"
                ELSE "Binary"
        IN /\ body_out.content.type = expected
           /\ body_out.size_bytes = Len(b)
           /\ body_out.truncated = (expected = "Truncated")
           /\ expected = "Text" => body_out.content.data = effective
           /\ expected = "Binary" => body_out.content.data = <<"base64", effective>>

\* a body sent as x-gzip inflates to bytes that are not UTF-8 and are more
\* than max_size: the result is Truncated, not Binary
C18_Witness ==
    /\ body_out # NotComputed
    /\ body_in.content_encoding = "x-gzip"
    /\ body_in.bytes = <<"gz", "x", "x">>
    /\ body_in.max_size = 1
    /\ body_out.content.type = "Truncated"

\* C19: whenever BodyData::from_bytes yields Truncated, the preview takes at
\* most 1024 bytes (PreviewMax in the model) and so does stored_size_bytes,
\* also when the effective bytes are not valid UTF-8.
C19_PreviewWithinLimit ==
    (body_out # NotComputed /\ body_out.content.type = "Truncated") =>
        /\ StrLen(body_out.content.data) <= PreviewMax
        /\ body_out.stored_size_bytes <= PreviewMax

\* an event with Some(null) read as None, the equality the round trip is
\* stated up to
NullAsAbsent(e) ==
    IF e # DeError /\ e.event.type = "Hook" /\ e.event.tool_input = SomeNull
    THEN [e EXCEPT !.event.tool_input = NoneValue]
    ELSE e

\* C20: for every event built by new_mcp, new_hook, new_proxy_request,
\* new_proxy_response or new_proxy_debug, deserializing its serialized JSON
\* gives an equal event, a null optional counting as absent; Hook events with
\* any string keys in their extra map included.
C20_RoundTrip ==
    decoded # NotComputed => NullAsAbsent(decoded) = NullAsAbsent(event)

\* C21: a hook process whose input is no JSON exits with a non-zero code and
\* appends nothing; one whose input is a JSON document exits with 0 and has
\* appended exactly one line to the file of the day, a line that reads back
\* as a Hook event (a process whose write failed is left aside).
C21_HookAppendsOneEvent ==
    hpc = "exited" =>
        IF ~stdin.json
        THEN hexit # 0 /\ \A d \in Dates : files[d] = <<>>
        ELSE jpc[HookJob] # "err" =>
                /\ hexit = 0
                /\ \A d \in Dates : LineCount(d) = (IF d = jentry[HookJob].date THEN 1 ELSE 0)
                /\ \A d \in Dates : TailOf(files[d]) = <<>>
                /\ LET line == LinesOf(files[jentry[HookJob].date])[1]
                   IN /\ ParseLogEntry(line) # DeError
                      /\ ParseLogEntry(line).event.type = "Hook"

\* C22: a connection whose CONNECT request had no authority in its URI, once
\* the proxy is done with the request, has been answered with status 400.
C22_MissingAuthorityAnswered400 ==
    \A c \in Conns :
        (cauth[c] = <<>> /\ cpc[c] \notin {"idle", "accepted", "request_traced", "missing_traced"})
            => (cresp[c].kind = "response" /\ cresp[c].status = 400)

\* YYYY-MM-DD: four digits, '-', two digits, '-', two digits
IsDateForm(str) ==
    /\ Len(str) = 10
    /\ \A i \in 1..10 : IF i \in {5, 8} THEN str[i] = "-" ELSE str[i] \in Digits

\* C23: read_logs and clear_log accept a date argument if and only if it has
\* the form YYYY-MM-DD, and the file they then address is
\* <logs_dir>/YYYY-MM-DD.jsonl.
C23_OnlyDateFiles ==
    (call \in DateCalls /\ result # NotComputed) =>
        /\ (result.kind = "addressed") <=> IsDateForm(call.date)
        /\ result.kind = "addressed" =>
              /\ result.path.base = "logs_dir"
              /\ IsDateForm(result.path.name)
              /\ result.path.ext = ".jsonl"

\* C24: the events read_last_n_lines returns are in file order: each one
\* stands in the file before the one returned after it, however many chunks
\* were read.
C24_TailInFileOrder ==
    rpc = "done" =>
        \A i \in 1..(Len(rresult) - 1) :
            \E p, q \in 1..Len(FullScan(rdate)) :
                /\ p < q
                /\ FullScan(rdate)[p] = rresult[i]
                /\ FullScan(rdate)[q] = rresult[i + 1]

\* the call of job j is between lock_exclusive returning Ok and the drop of
\* its file
HoldsLock(j) == jpc[j] \in {"locked", "flushed"}
\* the file of the entry of job j holds a byte of that entry
WroteByte(j) ==
    \E i \in 1..Len(files[jentry[j].date]) : files[jentry[j].date][i].ev = jentry[j]
EndsWith(f, s) == Len(f) >= Len(s) /\ SubSeq(f, Len(f) - Len(s) + 1, Len(f)) = s

\* C25: a write_sync call has written no byte of its entry before it holds
\* the lock of the daily file; when it gives the lock up and returns Ok, the
\* line of its entry, newline included, is in the file and nothing is left in
\* its buffer; the lock is given up only at a return; and two calls never
\* hold the lock of one daily file at the same time.
C25_LockCoversWrite ==
    /\ [](\A j \in WriterJobs : jpc[j] \in {"called", "opened"} => ~WroteByte(j))
    /\ [](\A j1, j2 \in WriterJobs :
            (j1 # j2 /\ HoldsLock(j1) /\ HoldsLock(j2)) => jentry[j1].date # jentry[j2].date)
    /\ [](\A j \in WriterJobs : HoldsLock(j) => lockHolder[jentry[j].date] = j)
    /\ [][\A j \in WriterJobs :
            (HoldsLock(j) /\ jpc'[j] \notin {"locked", "flushed"}) =>
                (/\ jpc'[j] \in {"ok", "err"}
                 /\ jpc'[j] = "ok" =>
                       (/\ jpend[j] = <<>>
                        /\ EndsWith(files[jentry[j].date], Serialize(jentry[j]) \o <<NL>>)
                        /\ files' = files))]_vars

\* a call holds the lock with part of its entry written through and the
\* rest in its buffer, while another call waits for the lock of that file
C25_Witness ==
    \E j1, j2 \in WriterJobs :
        /\ j1 # j2
        /\ jpc[j1] = "locked" /\ WroteByte(j1) /\ jpend[j1] # <<>>
        /\ jpc[j2] = "opened" /\ jentry[j2].date = jentry[j1].date

\* C26: every write_sync call returns, Ok or Err, under the fairness of
\* SpecWrite: a call that waits for the lock of a daily file gets it, since
\* every return of the holder, error returns included, releases it.
C26_EveryCallReturns ==
    \A j \in WriterJobs : (jpc[j] = "called") ~> (jpc[j] \in {"ok", "err"})

\* a call returned Ok after a call that held the lock of the same file and
\* had written part of its entry returned Err
C26_Witness ==
    \E j1, j2 \in WriterJobs :
        /\ j1 # j2
        /\ jpc[j1] = "err" /\ WroteByte(j1)
        /\ jpc[j2] = "ok" /\ jentry[j2].date = jentry[j1].date
        /\ EndsWith(files[jentry[j2].date], Serialize(jentry[j2]) \o <<NL>>)

\* where a connection in MITM mode stands after the upgrade
MitmStages == {"mitm_cert", "mitm_tls", "mitm_serving", "https_request"}
\* connection c moves to stage s in this step
Enters(c, s) == cpc[c] # s /\ cpc'[c] = s

\* C27: an intercepted CONNECT goes through its stages in one order: the 200
\* response, the upgrade, the leaf certificate, the TLS handshake, the inner
\* HTTP serving.  An inner request is forwarded, and its event logged, only
\* on a connection whose handshake succeeded, and a connection whose
\* certificate or handshake failed goes nowhere but to its end.
C27_MitmOrder ==
    /\ [](\A c \in MitmConns :
            cpc[c] \in MitmStages =>
                /\ cmode[c] = "mitm"
                /\ cresp[c] = [kind |-> "response", status |-> 200, body |-> <<>>])
    /\ [][\A c \in MitmConns :
            /\ Enters(c, "upgrading") => (cpc[c] = "connect_traced" /\ cresp'[c].status = 200)
            /\ Enters(c, "mitm_cert") => cpc[c] = "upgrading"
            /\ Enters(c, "mitm_tls") => cpc[c] = "mitm_cert"
            /\ Enters(c, "mitm_serving") => cpc[c] = "mitm_tls"
            /\ Enters(c, "https_request") => cpc[c] = "mitm_serving"
            /\ (fpc'[c] # fpc[c] \/ (jpc[<<"req", c>>] = "idle" /\ jpc'[<<"req", c>>] # "idle"))
                  => cpc[c] = "https_request"
            /\ (cpc[c] \in {"mitm_cert", "mitm_tls"} /\ cpc'[c] \notin MitmStages)
                  => cpc'[c] = "error_traced"
            /\ (cpc[c] = "error_traced" /\ cmode[c] = "mitm" /\ cpc'[c] # cpc[c])
                  => cpc'[c] = "closed"]_vars

\* the inner request of an intercepted connection was forwarded and its
\* ProxyRequest event is in the log
C27_Witness ==
    \E c \in MitmConns :
        /\ cpc[c] = "https_request"
        /\ fpc[c] = "done"
        /\ RequestEvent(c) \in LoggedEvents

\* C28: a call that is minting keeps no other call from the cache: a call
\* at its cache check, at its own minting or at its insert can take its step
\* while another one mints.  Every insert puts the leaf of its call under
\* the hostname, whatever is there, and nothing else changes the entry: the
\* entry of a hostname is the leaf of the last insert for it.
C28_MintOutsideLock ==
    /\ [](\A k1, k2 \in Callers :
            (k1 # k2 /\ gpc[k1] = "generate") =>
                /\ gpc[k2] = "check" => ENABLED CacheCheck(k2)
                /\ gpc[k2] = "insert" => ENABLED CacheStore(k2)
                /\ (gpc[k2] = "generate" /\ minted < MaxLeafs) =>
                      ENABLED GenerateHostCertificate(k2))
    /\ [][\A h \in Hostnames :
            IF \E k \in Callers : ghost[k] = h /\ gpc[k] = "insert" /\ gpc'[k] = "idle"
            THEN \E k \in Callers :
                    /\ ghost[k] = h /\ gpc[k] = "insert" /\ gpc'[k] = "idle"
                    /\ cache'[h] = gleaf[k]
            ELSE cache'[h] = cache[h]]_vars

\* two first requests for one hostname ran concurrently and each minted its
\* leaf; both have returned, and the cache holds the leaf inserted last,
\* which is the one minted first
C28_Witness ==
    \E k1, k2 \in Callers : \E h \in Hostnames :
        /\ k1 # k2
        /\ \A k \in Callers : gpc[k] = "idle"
        /\ gres[k1] = [kind |-> "ok", hostname |-> h, leaf |-> cache[h]]
        /\ gres[k2].kind = "ok" /\ gres[k2].hostname = h
        /\ gres[k2].leaf > gres[k1].leaf

\* what of a header value is no secret: the whole value of a header that is
\* not sensitive; of an Authorization value with a space, the scheme before
\* its first space; else nothing
PublicPart(key, value) ==
    IF to_lowercase(key) \notin SENSITIVE_HEADERS THEN [all |-> value]
    ELSE IF to_lowercase(key) = "authorization" /\ ContainsSpace(value)
         THEN [scheme |-> FirstPart(value)]
         ELSE [none |-> TRUE]
\* two header maps that differ only in secrets
SameButSecrets(h1, h2) ==
    /\ DOMAIN h1 = DOMAIN h2
    /\ \A key \in DOMAIN h1 : PublicPart(key, h1[key]) = PublicPart(key, h2[key])
\* both requests of the call are logged, and they differ at most in secrets
BothLogged ==
    /\ call \in CurlCalls
    /\ result[1] # NotComputed /\ result[2] # NotComputed
    /\ SameButSecrets(call.headers[1], call.headers[2])
Parts(cmd) == {cmd[i] : i \in 1..Len(cmd)}

\* C29 as stated: two requests that differ only in the secrets of their
\* sensitive headers have the same logged headers and the same curl_command.
C29_SameCommand ==
    BothLogged =>
        /\ result[1].headers = result[2].headers
        /\ result[1].curl_command = result[2].curl_command

\* C29: two requests that differ only in the secrets of their sensitive
\* headers have the same logged headers, and curl_commands made of the same
\* parts: the same -X part first, the same -H parts in some order, then the
\* same -d part if there is a body.
C29_SameCommandParts ==
    BothLogged =>
        /\ result[1].headers = result[2].headers
        /\ Len(result[1].curl_command) = Len(result[2].curl_command)
        /\ Parts(result[1].curl_command) = Parts(result[2].curl_command)
        /\ result[1].curl_command[1] = result[2].curl_command[1]
        /\ \A i \in 1..Len(result[1].curl_command) :
              result[1].curl_command[i].opt = result[2].curl_command[i].opt

\* the two requests carry different secrets under Authorization and under
\* x-api-key, and both are logged
C29_Witness ==
    /\ BothLogged
    /\ DOMAIN call.headers[1] = {"authorization", "x-api-key"}
    /\ \A key \in DOMAIN call.headers[1] : call.headers[1][key] # call.headers[2][key]
    /\ call.body # <<>>

\* v[0-9.]+ : a 'v' followed by at least one digit or dot
MatchesVersionPattern(seg) ==
    /\ Len(seg) >= 2 /\ seg[1] = "v"
    /\ \A i \in 2..Len(seg) : seg[i] \in Digits \cup {"."}

\* C30: extract_api_version returns the first path segment that matches
\* v[0-9.]+ if there is one; else the anthropic-version header, else the
\* api-version header, else none.
C30_ApiVersion ==
    (call \in VersionCalls /\ result # NotComputed) =>
        LET matching == {i \in 1..Len(call.path) : MatchesVersionPattern(call.path[i])}
        IN IF matching # {}
           THEN \E i \in matching :
                   /\ \A k \in matching : i <= k
                   /\ result = Some(call.path[i])
           ELSE IF "anthropic-version" \in DOMAIN call.headers
                THEN result = Some(call.headers["anthropic-version"])
           ELSE IF "api-version" \in DOMAIN call.headers
                THEN result = Some(call.headers["api-version"])
           ELSE result = None

\* the complete lines of the region read_last_n_lines has read so far: the
\* lines of the file that start at or after offset
RegionLines ==
    LET f == files[rdate]
        region == SubSeq(f, roffset + 1, Len(f))
    IN IF roffset = 0 \/ f[roffset] = NL THEN LinesOf(region)
       ELSE IF LinesOf(region) = <<>> THEN <<>> ELSE Tail(LinesOf(region))
\* how often entry e stands in the sequence s
Occurrences(s, e) == Cardinality({k \in 1..Len(s) : s[k] = e})

\* C31: when the loop of read_last_n_lines is over, on a file of well-formed
\* events, every complete line of the region read has been parsed into the
\* entries exactly once, lines that straddle a chunk boundary included.
C31_EveryLineOnce ==
    (rpc \in {"drain", "done"} /\ WellFormedFile(rdate)) =>
        \A i \in 1..Len(RegionLines) : Occurrences(rentries, Parse(RegionLines[i])) = 1

\* C32: after a write_sync call has returned an error, the daily file holds
\* no byte of the entry of that call.
C32_FailedWriteLeavesNothing ==
    \A j \in WriterJobs : jpc[j] = "err" => ~WroteByte(j)

\* C33: whatever the interleaving of clear_log with write_sync calls on a
\* daily file, once no write_sync call is under way the file consists of
\* complete event lines only.
C33_ClearKeepsWholeLines ==
    (\A j \in WriterJobs : jpc[j] \in {"idle", "ok"}) =>
        \A d \in Dates : WellFormedFile(d)

\* the entry is in the file as a complete line, newline included
WholeLineOf(d, e) ==
    e # ParseFail /\ \E k \in 1..LineCount(d) : LinesOf(files[d])[k] = Serialize(e)

\* C34: while writers append to the file, every chunk read_last_n_lines reads
\* lies inside the file (no read fails), and every entry it collects or
\* returns is an event whose whole line, newline included, is in the file:
\* no bytes of a record that is being written are ever returned.
C34_ReadSeesWholeEvents ==
    /\ rpc = "loop" => roffset <= Len(files[rdate])
    /\ \A i \in 1..Len(rentries) : WholeLineOf(rdate, rentries[i])
    /\ \A i \in 1..Len(rresult) : WholeLineOf(rdate, rresult[i])
C34_Witness ==
    /\ rpc = "done"
    /\ rresult # <<>>
    /\ \E j \in WriterJobs :
          /\ jpc[j] = "locked"
          /\ Len(rbuffer) >= 2
          /\ rbuffer[2].ev = jentry[j]

\* the place of the first byte of an entry in the file of day d (0: none)
FirstByteOf(d, e) ==
    IF \E i \in 1..Len(files[d]) : files[d][i].ev = e
    THEN CHOOSE i \in 1..Len(files[d]) :
            files[d][i].ev = e /\ \A k \in 1..(i - 1) : files[d][k].ev # e
    ELSE 0

\* C35: when a write_sync call died and left bytes of its record in the file,
\* every event that a later write_sync call appended with success is returned
\* by a read_last_n_lines call that asks for at least as many events as the
\* file has lines (on a file of one chunk).
C35_PartialLineCostsNothing ==
    (rpc = "done" /\ rn >= LineCount(rdate) /\ Len(files[rdate]) <= CHUNK_SIZE) =>
        \A j \in WriterJobs, e \in okWrites :
            (/\ jpc[j] = "err"
             /\ jentry[j].date = rdate
             /\ e.date = rdate
             /\ FirstByteOf(rdate, jentry[j]) > 0
             /\ FirstByteOf(rdate, e) > FirstByteOf(rdate, jentry[j]))
            => \E i \in 1..Len(rresult) : rresult[i] = e

\* a get_certificate call for h has returned the leaf that the cache holds
HandedOut(h) ==
    \E k \in Callers :
        gpc[k] = "idle" /\ gres[k] = [kind |-> "ok", hostname |-> h, leaf |-> cache[h]]

\* C36: once a get_certificate call for a hostname has returned the cached
\* leaf, the cache entry of the hostname never changes, so that every call
\* for the hostname that starts later is handed the same leaf.
C36_HandedOutLeafStays ==
    [][\A h \in Hostnames : HandedOut(h) => cache'[h] = cache[h]]_vars

\* C37: when both processes that constructed CertificateManager on the empty
\* directory are through, ca.pem and ca.key are on disk and belong to the
\* same root: the key of the saved certificate is the saved private key.
C37_SavedPairMatches ==
    (npc \in {"up", "failed"} /\ peer.pc \in {"up", "failed"}) =>
        /\ from_ca_cert_pem(capem) # PemError
        /\ from_pem(cakey) # PemError
        /\ capem[2].key = from_pem(cakey)

\* C38: when recording.include_bodies is false, forward_request calls no
\* write for a ProxyRequest or a ProxyResponse event and no such event is in
\* any daily file, while the request can go upstream as soon as its body is
\* collected, the response can be relayed as soon as it arrived, and the
\* response relayed to the client is the upstream response.
C38_NoBodiesNoEvents ==
    ~include_bodies =>
        /\ \A e \in LoggedEvents : e.type \notin {"ProxyRequest", "ProxyResponse"}
        /\ \A r \in Reqs :
              /\ jpc[<<"req", r>>] = "idle" /\ jpc[<<"resp", r>>] = "idle"
              /\ fpc[r] = "req_logging" => ENABLED FwdUpstreamOk(r, PlainResponse)
              /\ fpc[r] = "resp_logging" => ENABLED FwdRelay(r)
              /\ fpc[r] = "done" =>
                    fclient[r] = [kind |-> "response", status |-> fup[r].status,
                                  enc |-> fup[r].enc, body |-> fup[r].body]
C38_Witness ==
    /\ ~include_bodies
    /\ \E r \in Reqs : fpc[r] = "done" /\ fclient[r].kind = "response"
    /\ \A d \in Dates : files[d] = <<>>

\* C39: whatever target_hosts contains, a request whose method is not
\* CONNECT is handed to forward_request as soon as proxy_request has traced
\* it, goes upstream and is relayed; with bodies recorded, its ProxyRequest
\* event is written before it goes upstream and its ProxyResponse event
\* before the response is relayed, and both are in the log when the client
\* has the response.
C39_PlainIgnoresTargetHosts ==
    \A r \in RelayReqs :
        /\ (fpc[r] = "idle" /\ jpc[<<"trace", r>>] \in {"ok", "err"}) =>
              ENABLED HandleHttpProxy(r)
        /\ (fpc[r] = "req_logging" /\ include_bodies) =>
              /\ RequestEvent(r).type = "ProxyRequest"
              /\ jpc[<<"req", r>>] # "idle"
        /\ (fpc[r] = "req_logging" /\ (include_bodies => jpc[<<"req", r>>] = "ok")) =>
              ENABLED FwdUpstreamOk(r, PlainResponse)
        /\ (fpc[r] = "resp_logging" /\ (include_bodies => jpc[<<"resp", r>>] = "ok")) =>
              ENABLED FwdRelay(r)
        /\ fpc[r] = "done" =>
              /\ fclient[r] = [kind |-> "response", status |-> fup[r].status,
                               enc |-> fup[r].enc, body |-> fup[r].body]
              /\ include_bodies =>
                    /\ RequestEvent(r) \in LoggedEvents
                    /\ ResponseEvent(r) \in LoggedEvents
                    /\ ResponseEvent(r).type = "ProxyResponse"
C39_Witness ==
    /\ target_hosts # {}
    /\ include_bodies
    /\ \E r \in RelayReqs :
          /\ fpc[r] = "done"
          /\ fclient[r].kind = "response"
          /\ RequestEvent(r) \in LoggedEvents
          /\ ResponseEvent(r) \in LoggedEvents

====
